---- MODULE Spec2Model ----
(***************************************************************************)
(* pygorpho: Python bindings for the gorpho 3D morphology engine.          *)
(*                                                                         *)
(* The Python layer (flat.py, gen.py, strel.py, cuda.py, _thin.py) is      *)
(* modelled statement by statement as a small call stack machine.  The     *)
(* native engine behind _thin.*_impl is not part of the Python sources; it *)
(* is modelled from the design document (tile scheduler, brute-force       *)
(* kernel, van Herk/Gil-Werman line kernel, operation composer).           *)
(*                                                                         *)
(* Arrays are records [shape, data, dtype] with data the C-contiguous      *)
(* buffer, as numpy hands it to the engine.                                *)
(***************************************************************************)
EXTENDS Integers, Sequences, FiniteSets, TLC

VARIABLES
    args,     \* the caller's call: function name and caller-owned arguments
    stack,    \* Python call stack, a sequence of frames, top of stack last
    rv,       \* value handed back by the callee that returned last
    eng,      \* state of the native engine during an _impl call
    env,      \* environment: the error code the engine may fail with (0:
              \* none), whether its blocks run concurrently, and the codes
              \* the engine has reported to the calls made so far
    outcome   \* what the caller finally gets: a value or an exception

vars == <<args, stack, rv, eng, env, outcome>>

-----------------------------------------------------------------------------
(* Bounds of the model *)

\* Width in bits of the modelled integer element types.
Bits == 3
\* Block sizes tried on each axis are 1..MaxBlock (plus the defaults).
MaxBlock == 2
\* Line segments have lengths 0..MaxLen.
MaxLen == 3

-----------------------------------------------------------------------------
(* Program constants *)

DILATE == 0
ERODE == 1
OPEN == 2
CLOSE == 3
TOPHAT == 4
BOTHAT == 5

INSIDE == 0
BEST == 1
OUTSIDE == 2

LINE_COUNT == 13

\* Default block_size arguments: [256, 256, 256] and [256, 256, 512].
DefaultBlock == <<256, 256, 256>>
DefaultLinearBlock == <<256, 256, 512>>

\* Error codes of the C bindings named in raise_on_error.
SUCCESS == 0
ERR_BAD_MORPH_OP == 1
ERR_BAD_TYPE == 2
ERR_BAD_CUDA_DEVICE == 3
ERR_NO_AVAILABLE_CUDA_DEVICE == 4
ERR_UNCAUGHT_EXCEPTION == 5

None == [none |-> TRUE]

\* In the frame of a function that has no op parameter.
NoOp == DILATE - 1

-----------------------------------------------------------------------------
(* Element types and their arithmetic *)

\* Smallest and largest value of an element type.
TypeMin(dtype) == IF dtype = "int" THEN -(2^(Bits-1)) ELSE 0
TypeMax(dtype) == IF dtype = "int" THEN 2^(Bits-1) - 1 ELSE 2^Bits - 1

\* Arithmetic in the width of the element type wraps around.
\* The int32 of steps and lengths is far wider than any value used here.
Wrap(dtype, x) ==
    LET m == x % (2^Bits)
    IN IF dtype = "int32" THEN x
       ELSE IF dtype = "int" /\ m >= 2^(Bits-1) THEN m - 2^Bits ELSE m

\* Content of a cell of np.empty / np.empty_like that nobody wrote yet: any
\* value at all.  It lies outside both element types.
Uninit == -(2^Bits)

Max2(a, b) == IF a >= b THEN a ELSE b
Min2(a, b) == IF a <= b THEN a ELSE b
MaxOf(S) == CHOOSE m \in S : \A x \in S : x <= m
MinOf(S) == CHOOSE m \in S : \A x \in S : m <= x

-----------------------------------------------------------------------------
(* numpy helpers *)

RECURSIVE Prod(_)
Prod(s) == IF s = <<>> THEN 1 ELSE Head(s) * Prod(Tail(s))

\* Values that are not arrays: a (nested) Python list with its dimensions
\* and its numbers in row-major order, and a Python number.
PyList(dims, numbers) == [list |-> numbers, dims |-> dims]
PyScalar(x) == [scalar |-> x]

\* A nested list whose rows differ in length, such as [[1, 0, 0], [1]]:
\* np.asarray raises ValueError for it.
Ragged == [list |-> <<>>, dims |-> <<>>, ragged |-> TRUE]
Convertible(x) == "ragged" \notin DOMAIN x

\* An ndarray: it has a shape, an element type and a buffer.
IsArray(x) == "data" \in DOMAIN x

\* A newly allocated array.
Fresh(shape, data, dtype) == [shape |-> shape, data |-> data, dtype |-> dtype]

\* np.asarray(x): an array is returned as it is, a list or a number becomes
\* a new array of default integers.
np_asarray(x) ==
    CASE IsArray(x) -> x
      [] "list" \in DOMAIN x -> Fresh(x.dims, x.list, "int")
      [] OTHER -> Fresh(<<>>, <<x.scalar>>, "int")

\* An array the caller owns carries the name of its buffer; views of it
\* carry the same name, newly allocated arrays carry none.
Tag(x, name) ==
    IF IsArray(x)
    THEN [shape |-> x.shape, data |-> x.data, dtype |-> x.dtype, base |-> name]
    ELSE x

OwnedByCaller(a) == "base" \in DOMAIN a

\* np.atleast_3d on the shape: (N,) -> (1, N, 1), (M, N) -> (M, N, 1).
\* The buffer is the same, the inserted axes have extent 1.
np_atleast_3d(a) ==
    [a EXCEPT !.shape =
        CASE Len(a.shape) = 0 -> <<1, 1, 1>>
          [] Len(a.shape) = 1 -> <<1, a.shape[1], 1>>
          [] Len(a.shape) = 2 -> <<a.shape[1], a.shape[2], 1>>
          [] OTHER -> a.shape]

\* np.atleast_2d: () -> (1, 1), (N,) -> (1, N).
np_atleast_2d(a) ==
    [a EXCEPT !.shape =
        CASE Len(a.shape) = 0 -> <<1, 1>>
          [] Len(a.shape) = 1 -> <<1, a.shape[1]>>
          [] OTHER -> a.shape]

\* np.atleast_1d: () -> (1,).
np_atleast_1d(a) ==
    [a EXCEPT !.shape = IF Len(a.shape) = 0 THEN <<1>> ELSE a.shape]

\* Faulty variant: the truth values are negated.
np_asbool_negated(a) ==
    Fresh(a.shape,
          [i \in 1..Len(a.data) |->
              IF a.dtype = "bool" THEN ~a.data[i] ELSE a.data[i] = 0],
          "bool")

\* Faulty variant: only positive numbers are True.
np_asbool_positive(a) ==
    IF a.dtype = "bool" THEN a
    ELSE Fresh(a.shape, [i \in 1..Len(a.data) |-> a.data[i] > 0], "bool")

\* np.asarray(x, dtype=np.bool_): nonzero is True.
np_asbool(a) ==
    IF a.dtype = "bool" THEN a
    ELSE Fresh(a.shape, [i \in 1..Len(a.data) |-> a.data[i] # 0], "bool")

\* np.asarray(x, dtype=t) between integer types: the value modulo the width.
np_astype(a, dtype) ==
    IF a.dtype = dtype THEN a
    ELSE Fresh(a.shape,
               [i \in 1..Len(a.data) |->
                   IF a.dtype = "bool" THEN (IF a.data[i] THEN 1 ELSE 0)
                   ELSE Wrap(dtype, a.data[i])],
               dtype)

\* Faulty variant: the result is written over the input.
np_empty_like_in_place(a) == a

\* np.empty_like(a): a new array of the same shape and type, cells not
\* written.
np_empty_like(a) ==
    Fresh(a.shape, [i \in 1..Len(a.data) |-> Uninit], a.dtype)

\* Faulty variant: the result keeps the three axes it was computed with.
np_resize_kept(a, new_shape) == a

\* np.resize(a, new_shape): the flattened buffer, repeated as often as needed
\* to fill new_shape (all zeros when a is empty).
np_resize(a, new_shape) ==
    Fresh(new_shape,
          [i \in 1..Prod(new_shape) |->
              IF Len(a.data) = 0 THEN 0
              ELSE a.data[((i - 1) % Len(a.data)) + 1]],
          a.dtype)

\* Faulty variant: the rows are left as they are.
np_flip_axis1_kept(a) == a

\* Faulty variant: the components of each row are rotated by one place.
np_flip_axis1_rotated(a) ==
    LET n == a.shape[2]
    IN [a EXCEPT !.data = [i \in 1..Len(a.data) |->
            LET r == (i - 1) \div n
                c == (i - 1) % n
            IN a.data[r * n + ((c + 1) % n) + 1]]]

\* np.flip(line_steps, axis=1) of an (N, 3) array: each row reversed.
np_flip_axis1(a) ==
    LET n == a.shape[2]
    IN [a EXCEPT !.data = [i \in 1..Len(a.data) |->
            LET r == (i - 1) \div n
                c == (i - 1) % n
            IN a.data[r * n + (n - 1 - c) + 1]]]

\* np.empty(shape, dtype): a new array, cells not written.
np_empty(shape, dtype) ==
    Fresh(shape, [i \in 1..Prod(shape) |-> Uninit], dtype)

\* Faulty variant: the copy of an N x 3 array is laid out column by column.
np_array_column_major(a) ==
    Fresh(a.shape,
          [n \in 1..Len(a.data) |->
              a.data[((n - 1) % a.shape[1]) * 3 + ((n - 1) \div a.shape[1]) + 1]],
          a.dtype)

\* np.array(a): a copy.
np_array(a) == Fresh(a.shape, a.data, a.dtype)

\* x - y where one of the two is an ndarray: the other is converted, the
\* difference is a new array in the element type.
np_subtract(x, y) ==
    LET a == np_asarray(x)
        b == np_asarray(y)
    IN Fresh(a.shape,
             [i \in 1..Len(a.data) |-> Wrap(a.dtype, a.data[i] - b.data[i])],
             a.dtype)

-----------------------------------------------------------------------------
(* The native engine: geometry.  Positions and sizes are <<x, y, z>> with x *)
(* the fastest-varying axis of the buffer; coordinates start at 0.          *)

idx3d(pos, size) == pos[1] + size[1] * (pos[2] + size[2] * pos[3])

At(buf, pos, size) == buf[idx3d(pos, size) + 1]

\* Position of the i-th cell (i from 1) of a buffer of the given size.
PosOf(i, size) ==
    <<(i - 1) % size[1],
      ((i - 1) \div size[1]) % size[2],
      (i - 1) \div (size[1] * size[2])>>

InRegion(p, r) == \A i \in 1..3 : r.lo[i] <= p[i] /\ p[i] <= r.hi[i]

Positions(r) ==
    {<<x, y, z>> : x \in r.lo[1]..r.hi[1], y \in r.lo[2]..r.hi[2],
                   z \in r.lo[3]..r.hi[3]}

WholeVolume(size) ==
    [lo |-> <<0, 0, 0>>, hi |-> <<size[1] - 1, size[2] - 1, size[3] - 1>>]

-----------------------------------------------------------------------------
(* Tile scheduler *)

CeilDiv(a, b) == (a + b - 1) \div b

\* Faulty variant: only the blocks that fit whole into the volume.
GridSize_whole_blocks(size, block) == [i \in 1..3 |-> size[i] \div block[i]]

\* The dense grid of output blocks.
GridSize(size, block) == [i \in 1..3 |-> CeilDiv(size[i], block[i])]

AllBlocks(size, block) ==
    LET g == GridSize(size, block)
    IN {<<bx, by, bz>> : bx \in 0..g[1] - 1, by \in 0..g[2] - 1, bz \in 0..g[3] - 1}

\* The voxels a block writes: its cell of the grid, cut at the volume's end.
BlockOut(b, size, block) ==
    [lo |-> [i \in 1..3 |-> b[i] * block[i]],
     hi |-> [i \in 1..3 |-> Min2((b[i] + 1) * block[i], size[i]) - 1]]

\* The voxels a block reads: its output region enlarged by the halo on every
\* side, clipped to the volume.
BlockIn(b, size, block, halo) ==
    LET out == BlockOut(b, size, block)
    IN [lo |-> [i \in 1..3 |-> Max2(0, out.lo[i] - halo[i])],
        hi |-> [i \in 1..3 |-> Min2(size[i] - 1, out.hi[i] + halo[i])]]

\* Blocks are walked in scan order, x fastest.
ScanKey(b, size, block) == idx3d(b, GridSize(size, block))

FirstBlock(pending, size, block) ==
    CHOOSE b \in pending :
        \A c \in pending : ScanKey(b, size, block) <= ScanKey(c, size, block)

-----------------------------------------------------------------------------
(* Structuring elements: half-extents *)

Abs(x) == IF x < 0 THEN -x ELSE x

\* A 3D structuring element of size s is anchored at s \div 2: it reaches
\* s \div 2 cells back and (s - 1) \div 2 cells forward on each axis.
\* Faulty variant: the halo misses the cell furthest back.
StrelHalo_short(ssize) == [i \in 1..3 |-> (ssize[i] - 1) \div 2]

StrelHalo(ssize) == [i \in 1..3 |-> ssize[i] \div 2]

\* A line segment of len steps reaches (len \div 2) steps back.
\* Faulty variant: the halo of a segment is one step short.
LineHalo_short(line) ==
    [i \in 1..3 |-> IF line.len <= 1 THEN 0
                    ELSE Abs(line.step[i]) * ((line.len \div 2) - 1)]

LineHalo(line) ==
    [i \in 1..3 |-> IF line.len <= 0 THEN 0
                    ELSE Abs(line.step[i]) * (line.len \div 2)]

StageHalo(stage) ==
    IF stage.kind = "line" THEN LineHalo(stage.line) ELSE StrelHalo(stage.ssize)

-----------------------------------------------------------------------------
(* General/flat kernel *)

\* Identity of the reduction: a value that never wins.
Identity(op, dtype) == IF op = DILATE THEN TypeMin(dtype) ELSE TypeMax(dtype)

Reduce(op, S) == IF op = DILATE THEN MaxOf(S) ELSE MinOf(S)

\* Output voxel p of a brute-force pass that may read region r of src only.
BruteAt(stage, dtype, src, size, r, p) ==
    LET ss == stage.ssize
        rstart == [i \in 1..3 |-> p[i] - ss[i] \div 2]
        win == [lo |-> [i \in 1..3 |-> Max2(r.lo[i], rstart[i])],
                hi |-> [i \in 1..3 |-> Min2(r.hi[i], p[i] + (ss[i] - 1) \div 2)]]
        rel(q) == [i \in 1..3 |-> q[i] - rstart[i]]
        vals == IF stage.kind = "flat"
                THEN {At(src, q, size) :
                        q \in {q \in Positions(win) : At(stage.strel, rel(q), ss)}}
                ELSE {Wrap(dtype, IF stage.op = DILATE
                                  THEN At(src, q, size) + At(stage.strel, rel(q), ss)
                                  ELSE At(src, q, size) - At(stage.strel, rel(q), ss)) :
                        q \in Positions(win)}
    IN Reduce(stage.op, vals \cup {Identity(stage.op, dtype)})

-----------------------------------------------------------------------------
(* Line-segment kernel (van Herk/Gil-Werman) *)

\* Faulty variant: windows of even length are anchored one cell further on.
vHGW_anchor_forward(op, ident, f, n, L, j) ==
    LET a == (L - 1) \div 2
        m == n + L - 1
        fp(i) == IF i - a >= 0 /\ i - a < n THEN f[i - a] ELSE ident
        ext(x, y) == IF op = DILATE THEN Max2(x, y) ELSE Min2(x, y)
        g[i \in 0..m - 1] ==
            IF i % L = 0 THEN fp(i) ELSE ext(g[i - 1], fp(i))
        h[i \in 0..m - 1] ==
            IF i % L = L - 1 \/ i = m - 1 THEN fp(i) ELSE ext(fp(i), h[i + 1])
    IN ext(h[j], g[j + L - 1])

\* Window extremum at index j (from 0) of the line f (a function on 0..n-1)
\* for windows of L cells anchored at L \div 2.  The line is padded with the
\* identity, cut into windows of L cells, and the forward extrema g and the
\* backward extrema h of the windows are combined.
vHGW(op, ident, f, n, L, j) ==
    LET a == L \div 2
        m == n + L - 1
        fp(i) == IF i - a >= 0 /\ i - a < n THEN f[i - a] ELSE ident
        ext(x, y) == IF op = DILATE THEN Max2(x, y) ELSE Min2(x, y)
        g[i \in 0..m - 1] ==
            IF i % L = 0 THEN fp(i) ELSE ext(g[i - 1], fp(i))
        h[i \in 0..m - 1] ==
            IF i % L = L - 1 \/ i = m - 1 THEN fp(i) ELSE ext(fp(i), h[i + 1])
    IN ext(h[j], g[j + L - 1])

Shift(p, step, k) == [i \in 1..3 |-> p[i] + k * step[i]]

\* Output voxel p of one line pass that may read region r of src only.
LineAt(stage, dtype, src, size, r, p) ==
    LET step == stage.line.step
        L == stage.line.len
        reach == size[1] + size[2] + size[3]
        kb == Cardinality({k \in 1..reach : InRegion(Shift(p, step, -k), r)})
        kf == Cardinality({k \in 1..reach : InRegion(Shift(p, step, k), r)})
        n == kb + kf + 1
        f == [j \in 0..n - 1 |-> At(src, Shift(p, step, j - kb), size)]
    IN IF L <= 0 \/ step = <<0, 0, 0>>
       THEN At(src, p, size)
       ELSE vHGW(stage.op, Identity(stage.op, dtype), f, n, L, kb)

KernelAt(stage, dtype, src, size, r, p) ==
    IF stage.kind = "line"
    THEN LineAt(stage, dtype, src, size, r, p)
    ELSE BruteAt(stage, dtype, src, size, r, p)

\* The buffer the blocks of a pass read: the input of the pass.  The output
\* of the pass is a buffer of its own.
\* Faulty variant: one buffer for both, so that a block reads what the blocks
\* before it wrote.
PassInput_in_place(src, dst) ==
    [i \in 1..Len(src) |-> IF dst[i] # Uninit THEN dst[i] ELSE src[i]]

PassInput(src, dst) == src

\* The tile a worker loads for block b: the cells of the block's input region.
LoadTile(buf, size, block, b, halo) ==
    LET in == BlockIn(b, size, block, halo)
    IN [i \in 1..Len(buf) |-> IF InRegion(PosOf(i, size), in) THEN buf[i] ELSE Uninit]

\* One block of one pass: the block's voxels of dst are computed from the
\* block's input region of src; the rest of dst is left as it is.
ProcessBlock(stage, dtype, src, dst, size, block, b) ==
    LET out == BlockOut(b, size, block)
        in == BlockIn(b, size, block, StageHalo(stage))
    IN [i \in 1..Len(dst) |->
          IF InRegion(PosOf(i, size), out)
          THEN KernelAt(stage, dtype, src, size, in, PosOf(i, size))
          ELSE dst[i]]

-----------------------------------------------------------------------------
(* The native engine: operation composer and entry points *)

NoEngine == [busy |-> FALSE]

Stage(kind, op, strel, ssize, line) ==
    [kind |-> kind, op |-> op, strel |-> strel, ssize |-> ssize, line |-> line]

NoLine == [step |-> <<0, 0, 0>>, len |-> 0]

\* OPEN = erode then dilate, CLOSE = dilate then erode; the hat transforms
\* subtract afterwards.
ComposedOps(op) ==
    CASE op = DILATE -> <<DILATE>>
      [] op = ERODE -> <<ERODE>>
      [] op \in {OPEN, TOPHAT} -> <<ERODE, DILATE>>
      [] op \in {CLOSE, BOTHAT} -> <<DILATE, ERODE>>
      [] OTHER -> <<>>

EngineStart(fn, dtype, size, block, stages, hat, vol) ==
    [busy |-> TRUE, fn |-> fn, dtype |-> dtype, size |-> size, block |-> block,
     stages |-> stages, hat |-> hat, orig |-> vol, src |-> vol,
     dst |-> [i \in 1..Len(vol) |-> Uninit],
     pending |-> IF stages = <<>> THEN {} ELSE AllBlocks(size, block),
     running |-> {}]

\* pyFlatMorphOp(res, vol, strel, volX, volY, volZ, strelX, strelY, strelZ,
\*               type, op, blockX, blockY, blockZ)
flat_morph_op_impl(vol, strel, size, ssize, dtype, op, block) ==
    LET ops == ComposedOps(op)
    IN EngineStart("flat", dtype, size, block,
                   [k \in 1..Len(ops) |-> Stage("flat", ops[k], strel, ssize, NoLine)],
                   IF op \in {TOPHAT, BOTHAT} THEN op ELSE DILATE, vol)

\* pyFlatDilateErode(res, vol, strel, volX, volY, volZ, strelX, strelY, strelZ,
\*                   type, op, blockX, blockY, blockZ): one flat pass.
flat_dilate_erode_impl(vol, strel, size, ssize, dtype, op, block) ==
    EngineStart("flat", dtype, size, block,
                <<Stage("flat", op, strel, ssize, NoLine)>>, DILATE, vol)

\* pyGenDilateErode(res, vol, strel, volX, volY, volZ, strelX, strelY, strelZ,
\*                  type, op, blockX, blockY, blockZ)
gen_dilate_erode_impl(vol, strel, size, ssize, dtype, op, block) ==
    EngineStart("gen", dtype, size, block,
                <<Stage("gen", op, strel, ssize, NoLine)>>, DILATE, vol)

\* pyFlatLinearDilateErode(res, vol, lineSteps, lineLens, volX, volY, volZ,
\*                         numLines, type, op, blockX, blockY, blockZ)
\* lineSteps is the buffer of numLines rows of three components x, y, z.
flat_linear_dilate_erode_impl(vol, lineSteps, lineLens, size, numLines, dtype, op, block) ==
    EngineStart("line", dtype, size, block,
                [k \in 1..numLines |->
                    Stage("line", op, <<>>, <<1, 1, 1>>,
                          [step |-> <<lineSteps[3 * k - 2], lineSteps[3 * k - 1],
                                      lineSteps[3 * k]>>,
                           len |-> lineLens[k]])],
                DILATE, vol)

\* The 13 primitive directions of the zonohedral ball approximation.
BallSteps ==
    << 1, 0, 0,   0, 1, 0,   0, 0, 1,
       1, 1, 0,   1, -1, 0,  1, 0, 1,   1, 0, -1,   0, 1, 1,   0, 1, -1,
       1, 1, 1,   1, 1, -1,  1, -1, 1,  1, -1, -1 >>

\* Lengths of the 13 segments.  The design fixes them for radius 0 only.
BallLens(radius, type) == [i \in 1..LINE_COUNT |-> 0]

\* Result of the finished passes: the last pass's output, or for the hat
\* transforms its difference with the input, in the element type.
EngineResult(e) ==
    CASE e.hat = TOPHAT ->
            [i \in 1..Len(e.src) |-> Wrap(e.dtype, e.orig[i] - e.src[i])]
      [] e.hat = BOTHAT ->
            [i \in 1..Len(e.src) |-> Wrap(e.dtype, e.src[i] - e.orig[i])]
      [] OTHER -> e.src

-----------------------------------------------------------------------------
(* Python call stack *)

top == stack[Len(stack)]

SetTop(frame) == [stack EXCEPT ![Len(stack)] = frame]

NoOutcome == [kind |-> "none"]

\* return v
Return(v) ==
    /\ stack' = SubSeq(stack, 1, Len(stack) - 1)
    /\ rv' = v
    /\ outcome' = IF Len(stack) = 1 THEN [kind |-> "return", value |-> v]
                  ELSE outcome

\* raise exc: no frame of the package catches anything.
Raise(exc) ==
    /\ stack' = <<>>
    /\ rv' = None
    /\ outcome' = [kind |-> "raise", exc |-> exc]

\* return f(...): the callee's value is the caller's value.
TailCall(frame) ==
    /\ stack' = SetTop(frame)
    /\ UNCHANGED <<rv, outcome>>

\* x = f(...); the caller goes on at pc when f returns.
Call(pc, frame) ==
    /\ stack' = Append(SetTop([top EXCEPT !.pc = pc]), frame)
    /\ UNCHANGED <<rv, outcome>>

Running(f, pc) == stack # <<>> /\ top.f = f /\ top.pc = pc

StrelFrame(f, vol, strel, op, block_size) ==
    [f |-> f, pc |-> "start", vol |-> vol, strel |-> strel, op |-> op,
     block_size |-> block_size, old_shape |-> <<>>, res |-> None, ret |-> 0]

LinearFrame(f, vol, line_steps, line_lens, op, block_size) ==
    [f |-> f, pc |-> "start", vol |-> vol, line_steps |-> line_steps,
     line_lens |-> line_lens, op |-> op, block_size |-> block_size,
     old_shape |-> <<>>, res |-> None, ret |-> 0]

BallFrame(radius, type) ==
    [f |-> "strel.flatBallApprox", pc |-> "start", radius |-> radius,
     type |-> type, line_steps |-> None, line_lens |-> None, ret |-> 0]

DeviceFrame(device) ==
    [f |-> "cuda.get_device_name", pc |-> "start", device |-> device,
     buffer |-> "", ret |-> 0]

\* Faulty variant: the extents are passed in numpy order, s[0], s[1], s[2].
Reversed_numpy_order(s) == <<s[1], s[2], s[3]>>

\* The x, y, z a morph function passes for a numpy shape or block size:
\* s[2], s[1], s[0].
Reversed(s) == <<s[3], s[2], s[1]>>

-----------------------------------------------------------------------------
(* _thin.py *)

\* raise_on_error(error_code): what the call does for each code.  For the
\* codes 4 and 5 the function builds the RuntimeError and returns it.
raise_on_error(error_code) ==
    CASE error_code = SUCCESS -> [raised |-> FALSE, exc |-> "", value |-> "None"]
      [] error_code = ERR_BAD_MORPH_OP ->
            [raised |-> TRUE, exc |-> "ValueError", value |-> ""]
      [] error_code = ERR_BAD_TYPE ->
            [raised |-> TRUE, exc |-> "ValueError", value |-> ""]
      [] error_code = ERR_BAD_CUDA_DEVICE ->
            [raised |-> TRUE, exc |-> "ValueError", value |-> ""]
      [] error_code = ERR_NO_AVAILABLE_CUDA_DEVICE ->
            [raised |-> FALSE, exc |-> "", value |-> "RuntimeError"]
      [] error_code = ERR_UNCAUGHT_EXCEPTION ->
            [raised |-> FALSE, exc |-> "", value |-> "RuntimeError"]
      [] OTHER -> [raised |-> TRUE, exc |-> "ValueError", value |-> ""]

\* The tail shared by the morph functions:
\*     _thin.raise_on_error(ret)
\*     return np.resize(res, old_shape)
CheckAndReturn(frame, value) ==
    IF raise_on_error(frame.ret).raised
    THEN Raise(raise_on_error(frame.ret).exc)
    ELSE Return(value)

-----------------------------------------------------------------------------
(* flat.py: 3D flat structuring elements *)

\* morph from "Recast inputs" to the call of the engine.
FlatMorphCall ==
    IF ~Convertible(top.vol) \/ ~Convertible(top.strel)
    THEN Raise("ValueError") /\ UNCHANGED eng
    ELSE LET vol == np_atleast_3d(np_asarray(top.vol))
             strel == np_atleast_3d(np_asbool(np_asarray(top.strel)))
         IN /\ stack' = SetTop([top EXCEPT !.pc = "impl",
                                           !.old_shape = np_asarray(top.vol).shape,
                                           !.vol = vol, !.strel = strel,
                                           !.res = np_empty_like(vol)])
            /\ eng' = flat_morph_op_impl(vol.data, strel.data,
                          Reversed(vol.shape), Reversed(strel.shape),
                          vol.dtype, top.op, Reversed(top.block_size))
            /\ UNCHANGED <<rv, outcome>>

ValidOp(op) == op \in {DILATE, ERODE, OPEN, CLOSE, TOPHAT, BOTHAT}

\* Faulty variant: the op code is looked at after the inputs were converted.
flat_morph_converts_first ==
    /\ Running("flat.morph", "start")
    /\ IF Convertible(top.vol) /\ Convertible(top.strel) /\ ~ValidOp(top.op)
       THEN Raise("AssertionError") /\ UNCHANGED eng
       ELSE FlatMorphCall
    /\ UNCHANGED <<args, env>>

flat_morph ==
    /\ Running("flat.morph", "start")
    /\ IF ~ValidOp(top.op)
       THEN Raise("AssertionError") /\ UNCHANGED eng
       ELSE FlatMorphCall
    /\ UNCHANGED <<args, env>>

flat_morph_return ==
    /\ Running("flat.morph", "returned")
    /\ CheckAndReturn(top, np_resize(top.res, top.old_shape))
    /\ UNCHANGED <<args, eng, env>>

\* The earlier entry point of the flat passes: vol.shape is read before vol
\* is converted.
flat_dilate_erode ==
    /\ Running("flat.dilate_erode", "start")
    /\ IF ~(top.op = DILATE \/ top.op = ERODE)
       THEN Raise("AssertionError") /\ UNCHANGED eng
       ELSE IF ~IsArray(top.vol)
       THEN Raise("AttributeError") /\ UNCHANGED eng
       ELSE IF ~Convertible(top.strel)
       THEN Raise("ValueError") /\ UNCHANGED eng
       ELSE LET vol == np_atleast_3d(np_asarray(top.vol))
                strel == np_atleast_3d(np_asbool(np_asarray(top.strel)))
            IN /\ stack' = SetTop([top EXCEPT !.pc = "impl",
                                              !.old_shape = top.vol.shape,
                                              !.vol = vol, !.strel = strel,
                                              !.res = np_empty(vol.shape, vol.dtype)])
               /\ eng' = flat_dilate_erode_impl(vol.data, strel.data,
                             Reversed(vol.shape), Reversed(strel.shape),
                             vol.dtype, top.op, Reversed(top.block_size))
               /\ UNCHANGED <<rv, outcome>>
    /\ UNCHANGED <<args, env>>

flat_dilate_erode_return ==
    /\ Running("flat.dilate_erode", "returned")
    /\ CheckAndReturn(top, np_resize(top.res, top.old_shape))
    /\ UNCHANGED <<args, eng, env>>

\* Faulty variant: dilate hands ERODE to morph.
flat_dilate_as_erode ==
    /\ Running("flat.dilate", "start")
    /\ TailCall(StrelFrame("flat.morph", top.vol, top.strel, ERODE, top.block_size))
    /\ UNCHANGED <<args, eng, env>>

flat_dilate ==
    /\ Running("flat.dilate", "start")
    /\ TailCall(StrelFrame("flat.morph", top.vol, top.strel, DILATE, top.block_size))
    /\ UNCHANGED <<args, eng, env>>

flat_erode ==
    /\ Running("flat.erode", "start")
    /\ TailCall(StrelFrame("flat.morph", top.vol, top.strel, ERODE, top.block_size))
    /\ UNCHANGED <<args, eng, env>>

\* Faulty variant: open hands TOPHAT to morph.
flat_open_as_tophat ==
    /\ Running("flat.open", "start")
    /\ TailCall(StrelFrame("flat.morph", top.vol, top.strel, TOPHAT, top.block_size))
    /\ UNCHANGED <<args, eng, env>>

flat_open ==
    /\ Running("flat.open", "start")
    /\ TailCall(StrelFrame("flat.morph", top.vol, top.strel, OPEN, top.block_size))
    /\ UNCHANGED <<args, eng, env>>

flat_close ==
    /\ Running("flat.close", "start")
    /\ TailCall(StrelFrame("flat.morph", top.vol, top.strel, CLOSE, top.block_size))
    /\ UNCHANGED <<args, eng, env>>

flat_tophat ==
    /\ Running("flat.tophat", "start")
    /\ TailCall(StrelFrame("flat.morph", top.vol, top.strel, TOPHAT, top.block_size))
    /\ UNCHANGED <<args, eng, env>>

flat_bothat ==
    /\ Running("flat.bothat", "start")
    /\ TailCall(StrelFrame("flat.morph", top.vol, top.strel, BOTHAT, top.block_size))
    /\ UNCHANGED <<args, eng, env>>

-----------------------------------------------------------------------------
(* flat.py: line segments *)

linear_morph ==
    /\ Running("flat.linear_morph", "start")
    /\ IF ~(top.op = DILATE \/ top.op = ERODE)
       THEN Raise("AssertionError") /\ UNCHANGED eng
       ELSE IF \/ ~Convertible(top.vol) \/ ~Convertible(top.line_steps)
               \/ ~Convertible(top.line_lens)
       THEN Raise("ValueError") /\ UNCHANGED eng
       ELSE LET vol == np_atleast_3d(np_asarray(top.vol))
                line_steps == np_atleast_2d(np_astype(np_asarray(top.line_steps), "int32"))
                line_lens == np_atleast_1d(np_astype(np_asarray(top.line_lens), "int32"))
                flipped == np_array(np_flip_axis1(line_steps))
            IN IF \/ Len(line_steps.shape) # 2
                  \/ line_steps.shape[2] # 3
                  \/ line_steps.shape[1] # line_lens.shape[1]
               THEN Raise("AssertionError") /\ UNCHANGED eng
               ELSE /\ stack' = SetTop([top EXCEPT !.pc = "impl",
                                                   !.old_shape = np_asarray(top.vol).shape,
                                                   !.vol = vol,
                                                   !.line_steps = flipped,
                                                   !.line_lens = line_lens,
                                                   !.res = np_empty_like(vol)])
                    /\ eng' = flat_linear_dilate_erode_impl(vol.data, flipped.data,
                                  line_lens.data, Reversed(vol.shape),
                                  line_lens.shape[1], vol.dtype, top.op,
                                  Reversed(top.block_size))
                    /\ UNCHANGED <<rv, outcome>>
    /\ UNCHANGED <<args, env>>

\* Values a read past the end of a buffer can give.
Stray == {-1, 0, 1}

\* The earlier entry point of the line passes: vol.shape is read before vol
\* is converted, the rows are not required to have three components and are
\* passed as given.  The engine reads three integers per line: of a buffer
\* that holds fewer, the missing ones are whatever lies behind it.
linear_dilate_erode ==
    /\ Running("flat.linear_dilate_erode", "start")
    /\ IF ~(top.op = DILATE \/ top.op = ERODE)
       THEN Raise("AssertionError") /\ UNCHANGED eng
       ELSE IF ~IsArray(top.vol)
       THEN Raise("AttributeError") /\ UNCHANGED eng
       ELSE IF ~Convertible(top.line_steps) \/ ~Convertible(top.line_lens)
       THEN Raise("ValueError") /\ UNCHANGED eng
       ELSE LET vol == np_atleast_3d(np_asarray(top.vol))
                lineSteps == np_atleast_2d(np_astype(np_asarray(top.line_steps), "int32"))
                lineLens == np_atleast_1d(np_astype(np_asarray(top.line_lens), "int32"))
            IN IF \/ Len(lineSteps.shape) # 2
                  \/ lineSteps.shape[1] # lineLens.shape[1]
               THEN Raise("AssertionError") /\ UNCHANGED eng
               ELSE LET numLines == lineLens.shape[1]
                        held == Len(lineSteps.data)
                        missing == Max2(3 * numLines - held, 0)
                    IN \E behind \in [1..missing -> Stray] :
                          /\ stack' = SetTop([top EXCEPT !.pc = "impl",
                                                  !.old_shape = top.vol.shape,
                                                  !.vol = vol,
                                                  !.line_steps = lineSteps,
                                                  !.line_lens = lineLens,
                                                  !.res = np_empty(vol.shape, vol.dtype)])
                          /\ eng' = flat_linear_dilate_erode_impl(vol.data,
                                        lineSteps.data \o behind,
                                        lineLens.data, Reversed(vol.shape),
                                        numLines, vol.dtype, top.op,
                                        Reversed(top.block_size))
                          /\ UNCHANGED <<rv, outcome>>
    /\ UNCHANGED <<args, env>>

linear_dilate_erode_return ==
    /\ Running("flat.linear_dilate_erode", "returned")
    /\ CheckAndReturn(top, np_resize(top.res, top.old_shape))
    /\ UNCHANGED <<args, eng, env>>

linear_morph_return ==
    /\ Running("flat.linear_morph", "returned")
    /\ CheckAndReturn(top, np_resize(top.res, top.old_shape))
    /\ UNCHANGED <<args, eng, env>>

linear_dilate ==
    /\ Running("flat.linear_dilate", "start")
    /\ TailCall(LinearFrame("flat.linear_morph", top.vol, top.line_steps,
                            top.line_lens, DILATE, top.block_size))
    /\ UNCHANGED <<args, eng, env>>

linear_erode ==
    /\ Running("flat.linear_erode", "start")
    /\ TailCall(LinearFrame("flat.linear_morph", top.vol, top.line_steps,
                            top.line_lens, ERODE, top.block_size))
    /\ UNCHANGED <<args, eng, env>>

\* res = linear_erode(vol, line_steps, line_lens, block_size)
linear_open ==
    /\ Running("flat.linear_open", "start")
    /\ Call("L535", LinearFrame("flat.linear_erode", top.vol, top.line_steps,
                                top.line_lens, top.op, top.block_size))
    /\ UNCHANGED <<args, eng, env>>

\* Faulty variant: the dilation is given the volume, not the erosion's result.
linear_open_return_on_input ==
    /\ Running("flat.linear_open", "L535")
    /\ TailCall(LinearFrame("flat.linear_dilate", top.vol, top.line_steps,
                            top.line_lens, top.op, top.block_size))
    /\ UNCHANGED <<args, eng, env>>

\* return linear_dilate(res, line_steps, line_lens, block_size)
linear_open_return ==
    /\ Running("flat.linear_open", "L535")
    /\ TailCall(LinearFrame("flat.linear_dilate", rv, top.line_steps,
                            top.line_lens, top.op, top.block_size))
    /\ UNCHANGED <<args, eng, env>>

\* res = linear_dilate(vol, line_steps, line_lens, block_size)
linear_close ==
    /\ Running("flat.linear_close", "start")
    /\ Call("L585", LinearFrame("flat.linear_dilate", top.vol, top.line_steps,
                                top.line_lens, top.op, top.block_size))
    /\ UNCHANGED <<args, eng, env>>

\* return linear_erode(res, line_steps, line_lens, block_size)
linear_close_return ==
    /\ Running("flat.linear_close", "L585")
    /\ TailCall(LinearFrame("flat.linear_erode", rv, top.line_steps,
                            top.line_lens, top.op, top.block_size))
    /\ UNCHANGED <<args, eng, env>>

\* return vol - linear_open(vol, line_steps, line_lens, block_size)
linear_tophat ==
    /\ Running("flat.linear_tophat", "start")
    /\ Call("L634", LinearFrame("flat.linear_open", top.vol, top.line_steps,
                                top.line_lens, top.op, top.block_size))
    /\ UNCHANGED <<args, eng, env>>

linear_tophat_return ==
    /\ Running("flat.linear_tophat", "L634")
    /\ Return(np_subtract(top.vol, rv))
    /\ UNCHANGED <<args, eng, env>>

\* return linear_close(vol, line_steps, line_lens, block_size) - vol
linear_bothat ==
    /\ Running("flat.linear_bothat", "start")
    /\ Call("L683", LinearFrame("flat.linear_close", top.vol, top.line_steps,
                                top.line_lens, top.op, top.block_size))
    /\ UNCHANGED <<args, eng, env>>

\* Faulty variant: the difference is taken the other way round.
linear_bothat_return_swapped ==
    /\ Running("flat.linear_bothat", "L683")
    /\ Return(np_subtract(top.vol, rv))
    /\ UNCHANGED <<args, eng, env>>

linear_bothat_return ==
    /\ Running("flat.linear_bothat", "L683")
    /\ Return(np_subtract(rv, top.vol))
    /\ UNCHANGED <<args, eng, env>>

-----------------------------------------------------------------------------
(* gen.py: general (grayscale) structuring elements *)

\* The body shared by gen.morph and the earlier gen.dilate_erode.
GenMorphCall ==
    IF ~Convertible(top.vol) \/ ~Convertible(top.strel)
    THEN Raise("ValueError") /\ UNCHANGED eng
    ELSE LET vol == np_atleast_3d(np_asarray(top.vol))
             strel == np_atleast_3d(np_astype(np_asarray(top.strel), vol.dtype))
         IN IF vol.dtype # strel.dtype
            THEN Raise("AssertionError") /\ UNCHANGED eng
            ELSE /\ stack' = SetTop([top EXCEPT !.pc = "impl",
                                                !.old_shape = np_asarray(top.vol).shape,
                                                !.vol = vol, !.strel = strel,
                                                !.res = np_empty_like(vol)])
                 /\ eng' = gen_dilate_erode_impl(vol.data, strel.data,
                               Reversed(vol.shape), Reversed(strel.shape),
                               vol.dtype, top.op, Reversed(top.block_size))
                 /\ UNCHANGED <<rv, outcome>>

GenMorphBody ==
    IF ~(top.op = DILATE \/ top.op = ERODE)
    THEN Raise("AssertionError") /\ UNCHANGED eng
    ELSE GenMorphCall

\* Faulty variant: morph passes any op code on.
gen_morph_any_op ==
    /\ Running("gen.morph", "start")
    /\ GenMorphCall
    /\ UNCHANGED <<args, env>>

gen_morph ==
    /\ Running("gen.morph", "start")
    /\ GenMorphBody
    /\ UNCHANGED <<args, env>>

gen_morph_return ==
    /\ Running("gen.morph", "returned")
    /\ CheckAndReturn(top, np_resize(top.res, top.old_shape))
    /\ UNCHANGED <<args, eng, env>>

\* The earlier entry point: vol.shape is read before vol is converted.
gen_dilate_erode ==
    /\ Running("gen.dilate_erode", "start")
    /\ IF ~(top.op = DILATE \/ top.op = ERODE)
       THEN Raise("AssertionError") /\ UNCHANGED eng
       ELSE IF ~IsArray(top.vol)
       THEN Raise("AttributeError") /\ UNCHANGED eng
       ELSE IF ~Convertible(top.strel)
       THEN Raise("ValueError") /\ UNCHANGED eng
       ELSE LET vol == np_atleast_3d(np_asarray(top.vol))
                strel == np_atleast_3d(np_astype(np_asarray(top.strel), vol.dtype))
            IN IF vol.dtype # strel.dtype
               THEN Raise("AssertionError") /\ UNCHANGED eng
               ELSE /\ stack' = SetTop([top EXCEPT !.pc = "impl",
                                                   !.old_shape = top.vol.shape,
                                                   !.vol = vol, !.strel = strel,
                                                   !.res = np_empty(vol.shape, vol.dtype)])
                    /\ eng' = gen_dilate_erode_impl(vol.data, strel.data,
                                  Reversed(vol.shape), Reversed(strel.shape),
                                  vol.dtype, top.op, Reversed(top.block_size))
                    /\ UNCHANGED <<rv, outcome>>
    /\ UNCHANGED <<args, env>>

gen_dilate_erode_return ==
    /\ Running("gen.dilate_erode", "returned")
    /\ CheckAndReturn(top, np_resize(top.res, top.old_shape))
    /\ UNCHANGED <<args, eng, env>>

gen_dilate ==
    /\ Running("gen.dilate", "start")
    /\ TailCall(StrelFrame("gen.morph", top.vol, top.strel, DILATE, top.block_size))
    /\ UNCHANGED <<args, eng, env>>

\* Faulty variant: erode hands DILATE to morph.
gen_erode_as_dilate ==
    /\ Running("gen.erode", "start")
    /\ TailCall(StrelFrame("gen.morph", top.vol, top.strel, DILATE, top.block_size))
    /\ UNCHANGED <<args, eng, env>>

gen_erode ==
    /\ Running("gen.erode", "start")
    /\ TailCall(StrelFrame("gen.morph", top.vol, top.strel, ERODE, top.block_size))
    /\ UNCHANGED <<args, eng, env>>

\* res = erode(vol, strel, block_size)
\* Faulty variant: open dilates first.
gen_open_dilate_first ==
    /\ Running("gen.open", "start")
    /\ Call("L179", StrelFrame("gen.dilate", top.vol, top.strel, top.op, top.block_size))
    /\ UNCHANGED <<args, eng, env>>

gen_open ==
    /\ Running("gen.open", "start")
    /\ Call("L179", StrelFrame("gen.erode", top.vol, top.strel, top.op, top.block_size))
    /\ UNCHANGED <<args, eng, env>>

\* return dilate(res, strel, block_size)
gen_open_return ==
    /\ Running("gen.open", "L179")
    /\ TailCall(StrelFrame("gen.dilate", rv, top.strel, top.op, top.block_size))
    /\ UNCHANGED <<args, eng, env>>

\* res = dilate(vol, strel, block_size)
gen_close ==
    /\ Running("gen.close", "start")
    /\ Call("L218", StrelFrame("gen.dilate", top.vol, top.strel, top.op, top.block_size))
    /\ UNCHANGED <<args, eng, env>>

\* return erode(res, strel, block_size)
gen_close_return ==
    /\ Running("gen.close", "L218")
    /\ TailCall(StrelFrame("gen.erode", rv, top.strel, top.op, top.block_size))
    /\ UNCHANGED <<args, eng, env>>

\* return vol - open(vol, strel, block_size)
gen_tophat ==
    /\ Running("gen.tophat", "start")
    /\ Call("L259", StrelFrame("gen.open", top.vol, top.strel, top.op, top.block_size))
    /\ UNCHANGED <<args, eng, env>>

\* Faulty variant: the difference is taken the other way round.
gen_tophat_return_swapped ==
    /\ Running("gen.tophat", "L259")
    /\ Return(np_subtract(rv, top.vol))
    /\ UNCHANGED <<args, eng, env>>

gen_tophat_return ==
    /\ Running("gen.tophat", "L259")
    /\ Return(np_subtract(top.vol, rv))
    /\ UNCHANGED <<args, eng, env>>

\* return close(vol, strel, block_size) - vol
gen_bothat ==
    /\ Running("gen.bothat", "start")
    /\ Call("L300", StrelFrame("gen.close", top.vol, top.strel, top.op, top.block_size))
    /\ UNCHANGED <<args, eng, env>>

gen_bothat_return ==
    /\ Running("gen.bothat", "L300")
    /\ Return(np_subtract(rv, top.vol))
    /\ UNCHANGED <<args, eng, env>>

-----------------------------------------------------------------------------
(* strel.py and cuda.py *)

\* Faulty variant: room for twelve segments only.
flatBallApprox_twelve ==
    /\ Running("strel.flatBallApprox", "start")
    /\ IF ~(top.type = INSIDE \/ top.type = BEST \/ top.type = OUTSIDE)
       THEN Raise("AssertionError") /\ UNCHANGED eng
       ELSE /\ stack' = SetTop([top EXCEPT
                   !.pc = "impl",
                   !.line_steps = [shape |-> <<LINE_COUNT - 1, 3>>,
                                   data |-> [i \in 1..3 * LINE_COUNT - 3 |-> Uninit],
                                   dtype |-> "int32"],
                   !.line_lens = [shape |-> <<LINE_COUNT - 1>>,
                                  data |-> [i \in 1..LINE_COUNT - 1 |-> Uninit],
                                  dtype |-> "int32"]])
            /\ eng' = [busy |-> TRUE, fn |-> "ball", radius |-> top.radius,
                       type |-> top.type]
            /\ UNCHANGED <<rv, outcome>>
    /\ UNCHANGED <<args, env>>

flatBallApprox ==
    /\ Running("strel.flatBallApprox", "start")
    /\ IF ~(top.type = INSIDE \/ top.type = BEST \/ top.type = OUTSIDE)
       THEN Raise("AssertionError") /\ UNCHANGED eng
       ELSE /\ stack' = SetTop([top EXCEPT
                   !.pc = "impl",
                   !.line_steps = [shape |-> <<LINE_COUNT, 3>>,
                                   data |-> [i \in 1..3 * LINE_COUNT |-> Uninit],
                                   dtype |-> "int32"],
                   !.line_lens = [shape |-> <<LINE_COUNT>>,
                                  data |-> [i \in 1..LINE_COUNT |-> Uninit],
                                  dtype |-> "int32"]])
            /\ eng' = [busy |-> TRUE, fn |-> "ball", radius |-> top.radius,
                       type |-> top.type]
            /\ UNCHANGED <<rv, outcome>>
    /\ UNCHANGED <<args, env>>

flatBallApprox_return ==
    /\ Running("strel.flatBallApprox", "returned")
    /\ CheckAndReturn(top, [line_steps |-> top.line_steps, line_lens |-> top.line_lens])
    /\ UNCHANGED <<args, eng, env>>

get_device_name ==
    /\ Running("cuda.get_device_name", "start")
    /\ stack' = SetTop([top EXCEPT !.pc = "impl", !.buffer = ""])
    /\ eng' = [busy |-> TRUE, fn |-> "device", device |-> top.device]
    /\ UNCHANGED <<args, rv, env, outcome>>

get_device_name_return ==
    /\ Running("cuda.get_device_name", "returned")
    /\ CheckAndReturn(top, top.buffer)
    /\ UNCHANGED <<args, eng, env>>

-----------------------------------------------------------------------------
(* The native engine: execution *)

Volumetric == eng.busy /\ eng.fn \in {"flat", "gen", "line"}

\* The design leaves a line pass of negative length undefined: the pass may
\* copy its input, leave anything in its output, or bring the call down.
NegativeLength(stage) == stage.kind = "line" /\ stage.line.len < 0
Undefined(e) ==
    e.fn = "line" /\ \E k \in 1..Len(e.stages) : NegativeLength(e.stages[k])

\* One block of the current pass, when blocks are walked one at a time in
\* scan order: its tile is loaded, computed and written.
EngineBlock ==
    /\ Volumetric
    /\ ~env.concurrent
    /\ eng.pending # {}
    /\ LET b == FirstBlock(eng.pending, eng.size, eng.block)
           tile == LoadTile(PassInput(eng.src, eng.dst), eng.size, eng.block, b,
                            StageHalo(Head(eng.stages)))
       IN \E written \in IF NegativeLength(Head(eng.stages)) THEN BOOLEAN ELSE {TRUE} :
             eng' = [eng EXCEPT
                       !.dst = IF written
                               THEN ProcessBlock(Head(eng.stages), eng.dtype, tile,
                                                 eng.dst, eng.size, eng.block, b)
                               ELSE eng.dst,
                       !.pending = @ \ {b}]
    /\ UNCHANGED <<args, stack, rv, env, outcome>>

\* Blocks dispatched concurrently: a worker takes any pending block and
\* loads its tile...
EngineDispatch ==
    /\ Volumetric
    /\ env.concurrent
    /\ eng.pending # {}
    /\ \E b \in eng.pending :
          eng' = [eng EXCEPT
                    !.pending = @ \ {b},
                    !.running = @ \cup
                        {[b |-> b,
                          tile |-> LoadTile(PassInput(eng.src, eng.dst), eng.size,
                                            eng.block, b, StageHalo(Head(eng.stages)))]}]
    /\ UNCHANGED <<args, stack, rv, env, outcome>>

\* ... and, at any later time, writes the voxels of its block computed from
\* that tile.
EngineCommit ==
    /\ Volumetric
    /\ \E w \in eng.running :
          \E written \in IF NegativeLength(Head(eng.stages)) THEN BOOLEAN ELSE {TRUE} :
             eng' = [eng EXCEPT
                       !.dst = IF written
                               THEN ProcessBlock(Head(eng.stages), eng.dtype, w.tile,
                                                 eng.dst, eng.size, eng.block, w.b)
                               ELSE eng.dst,
                       !.running = @ \ {w}]
    /\ UNCHANGED <<args, stack, rv, env, outcome>>

\* Faulty variant: the next pass starts once every block is dispatched.
EngineStage_early ==
    /\ Volumetric
    /\ eng.pending = {}
    /\ eng.stages # <<>>
    /\ eng' = [eng EXCEPT
                 !.stages = Tail(@),
                 !.src = eng.dst,
                 !.dst = [i \in 1..Len(eng.dst) |-> Uninit],
                 !.pending = IF Tail(eng.stages) = <<>> THEN {}
                             ELSE AllBlocks(eng.size, eng.block)]
    /\ UNCHANGED <<args, stack, rv, env, outcome>>

\* All blocks of the pass are committed: its output is the next pass's input.
EngineStage ==
    /\ Volumetric
    /\ eng.pending = {} /\ eng.running = {}
    /\ eng.stages # <<>>
    /\ eng' = [eng EXCEPT
                 !.stages = Tail(@),
                 !.src = eng.dst,
                 !.dst = [i \in 1..Len(eng.dst) |-> Uninit],
                 !.pending = IF Tail(eng.stages) = <<>> THEN {}
                             ELSE AllBlocks(eng.size, eng.block)]
    /\ UNCHANGED <<args, stack, rv, env, outcome>>

\* The caller's buffers after the engine wrote data through the pointer res:
\* the volume and the structuring element are only read.
WrittenThrough(res, data) ==
    IF OwnedByCaller(res) THEN [env.mem EXCEPT ![res.base] = data] ELSE env.mem

\* All passes are done: the result is written to res and the call returns 0.
EngineReturn ==
    /\ Volumetric
    /\ eng.pending = {} /\ eng.running = {}
    /\ eng.stages = <<>>
    /\ stack' = SetTop([top EXCEPT !.pc = "returned", !.ret = SUCCESS,
                                   !.res.data = EngineResult(eng)])
    /\ eng' = NoEngine
    /\ env' = [env EXCEPT !.reported = Append(@, SUCCESS),
                          !.mem = WrittenThrough(top.res, EngineResult(eng))]
    /\ UNCHANGED <<args, rv, outcome>>

EngineBallReturn ==
    /\ eng.busy /\ eng.fn = "ball"
    /\ stack' = SetTop([top EXCEPT !.pc = "returned", !.ret = SUCCESS,
                                   !.line_steps.data = BallSteps,
                                   !.line_lens.data = BallLens(eng.radius, eng.type)])
    /\ eng' = NoEngine
    /\ env' = [env EXCEPT !.reported = Append(@, SUCCESS)]
    /\ UNCHANGED <<args, rv, outcome>>

EngineDeviceReturn ==
    /\ eng.busy /\ eng.fn = "device"
    /\ stack' = SetTop([top EXCEPT !.pc = "returned", !.ret = SUCCESS,
                                   !.buffer = "device name"])
    /\ eng' = NoEngine
    /\ env' = [env EXCEPT !.reported = Append(@, SUCCESS)]
    /\ UNCHANGED <<args, rv, outcome>>

\* The call fails with the environment's error code; what was written to the
\* result so far stays, the rest of it was never written.
EngineFail ==
    /\ eng.busy
    /\ env.fault # SUCCESS \/ (Volumetric /\ Undefined(eng))
    /\ LET code == IF env.fault # SUCCESS THEN env.fault ELSE ERR_UNCAUGHT_EXCEPTION
           partial == Volumetric /\ Len(eng.stages) = 1
                      /\ eng.hat \notin {TOPHAT, BOTHAT}
       IN /\ stack' = SetTop(
                  IF partial
                  THEN [top EXCEPT !.pc = "returned", !.ret = code,
                                   !.res.data = eng.dst]
                  ELSE [top EXCEPT !.pc = "returned", !.ret = code])
          /\ env' = [env EXCEPT !.reported = Append(@, code),
                                !.mem = IF partial THEN WrittenThrough(top.res, eng.dst)
                                        ELSE @]
    /\ eng' = NoEngine
    /\ UNCHANGED <<args, rv, outcome>>

-----------------------------------------------------------------------------
(* Inputs *)

Array(shape, dtype, data) == [shape |-> shape, data |-> data, dtype |-> dtype]

\* A volume that is b everywhere.
Constant(shape, dtype, b) ==
    Array(shape, dtype, [i \in 1..Prod(shape) |-> b])

\* The volumes that are b everywhere but for one voxel of value v.
Impulses(shape, dtype, b, v) ==
    {Array(shape, dtype, [i \in 1..Prod(shape) |-> IF i = k THEN v ELSE b]) :
        k \in 1..Prod(shape)}

\* A volume with values 0..2 and no mirror symmetry.
Textured(shape, dtype) ==
    Array(shape, dtype, [i \in 1..Prod(shape) |-> (i * i + (i \div 2)) % 3])

\* The all-true mask and the all-ones kernel of a shape.
Box(shape) == Array(shape, "bool", [i \in 1..Prod(shape) |-> TRUE])
Ones(shape, dtype) == Array(shape, dtype, [i \in 1..Prod(shape) |-> 1])

\* The masks of a shape with exactly one false entry.
Pierced(shape) ==
    {Array(shape, "bool", [i \in 1..Prod(shape) |-> i # k]) : k \in 1..Prod(shape)}

\* Line sets: N step vectors (rows of three components) and N lengths.
Steps(rows) ==
    Array(<<Len(rows), 3>>, "int32",
          [i \in 1..3 * Len(rows) |-> rows[((i - 1) \div 3) + 1][((i - 1) % 3) + 1]])
Lens(lens) == Array(<<Len(lens)>>, "int32", lens)

AxisSteps == Steps(<<<<1, 0, 0>>, <<0, 1, 0>>, <<0, 0, 1>>>>)

BlockSizes == {<<b0, b1, b2>> : b0 \in 1..MaxBlock, b1 \in 1..MaxBlock, b2 \in 1..MaxBlock}

Quiet == [fault |-> SUCCESS, concurrent |-> FALSE, reported |-> <<>>]

Input(call, environment) == [call |-> call, env |-> environment]

\* Environments: the engine may fail with any of the codes 1..5 or with a
\* code the bindings do not know; without a fault its blocks may run in scan
\* order or concurrently.
UnknownCodes == {ERR_UNCAUGHT_EXCEPTION + 1, -1}
Environments ==
    {[fault |-> c, concurrent |-> FALSE, reported |-> <<>>] :
        c \in SUCCESS..ERR_UNCAUGHT_EXCEPTION \cup UnknownCodes}
    \cup {[fault |-> SUCCESS, concurrent |-> TRUE, reported |-> <<>>]}

\* Calls of every function of the package on a few small arguments.
BaseVolumes == {Textured(<<1, 2, 3>>, "int"), Constant(<<2, 1, 2>>, "int", 1)}
BaseBlocks == {<<1, 1, 2>>, DefaultBlock}
BaseStrel == Box(<<1, 2, 2>>)
BaseLens == Lens(<<1, 2, 3>>)

StrelCalls(vols, strels, blocks) ==
    {StrelFrame(f, v, s, NoOp, b) :
        f \in {"flat.dilate", "flat.erode", "flat.open", "flat.close",
               "flat.tophat", "flat.bothat", "gen.dilate", "gen.erode",
               "gen.open", "gen.close", "gen.tophat", "gen.bothat"},
        v \in vols, s \in strels, b \in blocks}

LinearCalls(vols, steps, lens, blocks) ==
    {LinearFrame(f, v, steps, l, NoOp, b) :
        f \in {"flat.linear_dilate", "flat.linear_erode", "flat.linear_open",
               "flat.linear_close", "flat.linear_tophat", "flat.linear_bothat"},
        v \in vols, l \in lens, b \in blocks}

BaseCalls ==
    StrelCalls(BaseVolumes, {BaseStrel}, BaseBlocks)
    \cup {StrelFrame("flat.morph", v, BaseStrel, op, b) :
            v \in BaseVolumes, op \in DILATE..BOTHAT \cup {99}, b \in BaseBlocks}
    \cup {StrelFrame("flat.dilate_erode", v, BaseStrel, op, b) :
            v \in BaseVolumes, op \in {DILATE, ERODE, OPEN}, b \in BaseBlocks}
    \cup {LinearFrame("flat.linear_dilate_erode", v, AxisSteps, BaseLens, op, b) :
            v \in BaseVolumes, op \in {DILATE, ERODE, TOPHAT}, b \in BaseBlocks}
    \cup {StrelFrame(f, v, Ones(<<1, 2, 2>>, "int"), op, b) :
            f \in {"gen.morph", "gen.dilate_erode"},
            v \in BaseVolumes, op \in {DILATE, ERODE, OPEN}, b \in BaseBlocks}
    \cup LinearCalls(BaseVolumes, AxisSteps, {BaseLens}, BaseBlocks)
    \cup {LinearFrame("flat.linear_morph", v, AxisSteps, BaseLens, op, b) :
            v \in BaseVolumes, op \in {DILATE, ERODE, TOPHAT}, b \in BaseBlocks}
    \cup {BallFrame(0, t) : t \in INSIDE..OUTSIDE + 1}
    \cup {DeviceFrame(0)}

BaseInputs == {Input(c, e) : c \in BaseCalls, e \in Environments}

-----------------------------------------------------------------------------
(* Specification *)

\* The arguments of a call that are arrays, and what their buffers hold.
Buffers(call) ==
    {k \in DOMAIN call \cap {"vol", "strel", "line_steps", "line_lens"} :
        IsArray(call[k])}
CallerMem(call) == [k \in Buffers(call) |-> call[k].data]
Owned(call) ==
    [k \in DOMAIN call |-> IF k \in Buffers(call) THEN Tag(call[k], k) ELSE call[k]]

Start(inputs) ==
    \E in \in inputs :
        /\ args = in.call
        /\ stack = <<Owned(in.call)>>
        /\ env = [fault |-> in.env.fault, concurrent |-> in.env.concurrent,
                  reported |-> in.env.reported, mem |-> CallerMem(in.call)]
        /\ eng = NoEngine
        /\ rv = None
        /\ outcome = NoOutcome

Init == Start(BaseInputs)

Next ==
    \/ flat_morph \/ flat_morph_return
    \/ flat_dilate_erode \/ flat_dilate_erode_return
    \/ linear_dilate_erode \/ linear_dilate_erode_return
    \/ flat_dilate \/ flat_erode \/ flat_open \/ flat_close
    \/ flat_tophat \/ flat_bothat
    \/ linear_morph \/ linear_morph_return
    \/ linear_dilate \/ linear_erode
    \/ linear_open \/ linear_open_return
    \/ linear_close \/ linear_close_return
    \/ linear_tophat \/ linear_tophat_return
    \/ linear_bothat \/ linear_bothat_return
    \/ gen_morph \/ gen_morph_return
    \/ gen_dilate_erode \/ gen_dilate_erode_return
    \/ gen_dilate \/ gen_erode
    \/ gen_open \/ gen_open_return
    \/ gen_close \/ gen_close_return
    \/ gen_tophat \/ gen_tophat_return
    \/ gen_bothat \/ gen_bothat_return
    \/ flatBallApprox \/ flatBallApprox_return
    \/ get_device_name \/ get_device_name_return
    \/ EngineBlock \/ EngineDispatch \/ EngineCommit
    \/ EngineStage \/ EngineReturn
    \/ EngineBallReturn \/ EngineDeviceReturn \/ EngineFail

Spec == Init /\ [][Next]_vars

Done == stack = <<>>

-----------------------------------------------------------------------------
(* Reference semantics, in the caller's (numpy) coordinates: a voxel of a   *)
(* 3D array of shape (n0, n1, n2) is addressed by <<i0, i1, i2>>.           *)

Coords(shape) ==
    {<<i0, i1, i2>> : i0 \in 0..shape[1] - 1, i1 \in 0..shape[2] - 1,
                      i2 \in 0..shape[3] - 1}

CoordOf(n, shape) ==
    <<(n - 1) \div (shape[2] * shape[3]),
      ((n - 1) \div shape[3]) % shape[2],
      (n - 1) % shape[3]>>

Elem(a, i) == a.data[(i[1] * a.shape[2] + i[2]) * a.shape[3] + i[3] + 1]

\* Shape of the array as the morph functions see it, with three axes.
Shape3(shape) ==
    CASE Len(shape) = 0 -> <<1, 1, 1>>
      [] Len(shape) = 1 -> <<1, shape[1], 1>>
      [] Len(shape) = 2 -> <<shape[1], shape[2], 1>>
      [] OTHER -> shape

As3D(a) == [a EXCEPT !.shape = Shape3(a.shape)]

\* Entry j of a structuring element lies at offset j - (size \div 2).
Neighbour(p, j, sshape) == [k \in 1..3 |-> p[k] + j[k] - (sshape[k] \div 2)]

\* Dilation or erosion of the 3D array V by the 3D structuring element S:
\* the extremum over the entries of S whose neighbour lies in the volume.
\* weight(j) is added (dilation) or subtracted (erosion); used(j) selects.
Extremum(op, dtype, vals) ==
    IF vals = {} THEN (IF op = DILATE THEN TypeMin(dtype) ELSE TypeMax(dtype))
    ELSE IF op = DILATE THEN MaxOf(vals) ELSE MinOf(vals)

MorphRef(op, V, S, flat) ==
    [V EXCEPT !.data = [n \in 1..Len(V.data) |->
        LET p == CoordOf(n, V.shape)
            near == {j \in Coords(S.shape) :
                        /\ Neighbour(p, j, S.shape) \in Coords(V.shape)
                        /\ flat => Elem(S, j)}
        IN Extremum(op, V.dtype,
              {IF flat THEN Elem(V, Neighbour(p, j, S.shape))
               ELSE IF op = DILATE
                    THEN Wrap(V.dtype, Elem(V, Neighbour(p, j, S.shape)) + Elem(S, j))
                    ELSE Wrap(V.dtype, Elem(V, Neighbour(p, j, S.shape)) - Elem(S, j)) :
               j \in near})]]

FlatRef(op, V, S) == MorphRef(op, As3D(V), As3D(S), TRUE)
GenRef(op, V, S) == MorphRef(op, As3D(V), As3D(S), FALSE)

\* The call returned a value and every engine call it made reported success.
Succeeded ==
    /\ Done
    /\ outcome.kind = "return"
    /\ \A i \in 1..Len(env.reported) : env.reported[i] = SUCCESS

\* The array the caller gets: data in the shape of the volume passed in.
Shaped(a, shape) == [a EXCEPT !.shape = shape]

Calls(f, op) == args.f = f /\ args.op = op

-----------------------------------------------------------------------------
(* Test volumes of the package's test suite *)

Cube7 == <<7, 7, 7>>

\* np.zeros((7,7,7)) with vol[3,3,3] = 1, and np.ones with vol[3,3,3] = 0.
TestPoint(b, v) ==
    Array(Cube7, "int", [n \in 1..Prod(Cube7) |-> IF CoordOf(n, Cube7) = <<3, 3, 3>> THEN v ELSE b])

\* vol[3:5,3:5,3:5] = v on a volume of b.
TestBox(b, v) ==
    Array(Cube7, "int",
          [n \in 1..Prod(Cube7) |->
              IF \A k \in 1..3 : CoordOf(n, Cube7)[k] \in 3..4 THEN v ELSE b])

\* expected[2:5,2:6,1:6] = v on a volume of b.
TestExpected(b, v) ==
    Array(Cube7, "int",
          [n \in 1..Prod(Cube7) |->
              LET c == CoordOf(n, Cube7)
              IN IF c[1] \in 2..4 /\ c[2] \in 2..5 /\ c[3] \in 1..5 THEN v ELSE b])

-----------------------------------------------------------------------------
(* Reference semantics of line segments, in the caller's coordinates *)

\* One pass: the extremum over the len voxels p + k * step, k from
\* -(len \div 2) to len - 1 - (len \div 2), that lie in the volume.
LinePassRef(op, V, step, len) ==
    IF len <= 0 THEN V
    ELSE [V EXCEPT !.data = [n \in 1..Len(V.data) |->
            LET p == CoordOf(n, V.shape)
                q(k) == [a \in 1..3 |-> p[a] + k * step[a]]
            IN Extremum(op, V.dtype,
                  {Elem(V, q(k)) :
                      k \in {k \in -(len \div 2)..(len - 1 - (len \div 2)) :
                                q(k) \in Coords(V.shape)}})]]

Row(steps, k) == <<steps.data[3 * k - 2], steps.data[3 * k - 1], steps.data[3 * k]>>

\* The passes of segments k.. of the set, one after the other.
RECURSIVE LinePassesRef(_, _, _, _, _)
LinePassesRef(op, V, steps, lens, k) ==
    IF k > Len(lens.data) THEN V
    ELSE LinePassesRef(op, LinePassRef(op, V, Row(steps, k), lens.data[k]),
                       steps, lens, k + 1)

LinearRef(op, V, steps, lens) == LinePassesRef(op, As3D(V), steps, lens, 1)

-----------------------------------------------------------------------------
(* The whole volume in one pass *)

WholePass(stage, dtype, src, size) ==
    [i \in 1..Len(src) |->
        KernelAt(stage, dtype, src, size, WholeVolume(size), PosOf(i, size))]

\* The result of an engine call when every pass reads the whole volume.
RECURSIVE InOnePass(_)
InOnePass(e) ==
    IF e.stages = <<>> THEN EngineResult(e)
    ELSE InOnePass([e EXCEPT
            !.src = WholePass(Head(e.stages), e.dtype, e.src, e.size),
            !.stages = Tail(@)])

-----------------------------------------------------------------------------
(* 3D structuring elements, every block size: inputs and specification *)

TileShape == <<2, 3, 3>>

\* A bright voxel to dilate, a dark voxel to erode, and a textured volume
\* for both.
Polarised(shape) ==
    {[op |-> DILATE, vol |-> v] : v \in Impulses(shape, "int", 0, 1)}
    \cup {[op |-> ERODE, vol |-> v] : v \in Impulses(shape, "int", 1, 0)}
    \cup {[op |-> op, vol |-> v] :
            op \in {DILATE, ERODE},
            v \in {Textured(shape, "int"), Constant(shape, "int", 1)}}

FlatStrels ==
    {Box(sh) : sh \in {<<1, 1, 1>>, <<2, 2, 2>>, <<3, 3, 3>>, <<1, 2, 3>>,
                       <<3, 1, 2>>, <<1, 4, 1>>}}
    \cup Pierced(<<1, 2, 2>>)

\* A kernel with the weights -1, 0, 1, 2.
Weighted(shape, dtype) ==
    Array(shape, dtype, [i \in 1..Prod(shape) |-> ((i * 3) % 4) - 1])

GenStrels ==
    {Ones(sh, "int") : sh \in {<<1, 1, 1>>, <<2, 2, 2>>, <<3, 1, 2>>}}
    \cup {Weighted(sh, "int") : sh \in {<<3, 3, 3>>, <<1, 2, 3>>, <<2, 4, 1>>}}

TiledCalls ==
    {StrelFrame("flat.morph", x.vol, s, x.op, b) :
        x \in Polarised(TileShape), s \in FlatStrels, b \in BlockSizes}
    \cup {StrelFrame("gen.morph", x.vol, s, x.op, b) :
        x \in Polarised(TileShape), s \in GenStrels, b \in BlockSizes}

\* tests/test_flat.py and tests/test_gen.py
TiledTests ==
    {StrelFrame(f, TestPoint(0, 1), Box(<<3, 4, 5>>), DILATE, DefaultBlock) :
        f \in {"flat.morph", "flat.dilate"}}
    \cup {StrelFrame(f, TestPoint(1, 0), Box(<<3, 4, 5>>), ERODE, DefaultBlock) :
        f \in {"flat.morph", "flat.erode"}}
    \cup {StrelFrame(f, TestPoint(0, 1), Ones(<<3, 4, 5>>, "int"), DILATE, DefaultBlock) :
        f \in {"gen.dilate_erode", "gen.dilate"}}
    \cup {StrelFrame(f, TestPoint(1, 0), Ones(<<3, 4, 5>>, "int"), ERODE, DefaultBlock) :
        f \in {"gen.dilate_erode", "gen.erode"}}

TiledInputs ==
    BaseInputs \cup {Input(c, Quiet) : c \in TiledCalls \cup TiledTests}

InitTiled == Start(TiledInputs)

SpecTiled == InitTiled /\ [][Next]_vars

-----------------------------------------------------------------------------
(* Claims on 3D structuring elements *)

\* The engine call flat.morph, gen.morph or flat.linear_morph makes for the
\* arguments a, with one block as large as the volume.
OnePassCall(a) ==
    LET vol == np_atleast_3d(a.vol)
        whole == Reversed(vol.shape)
    IN CASE a.f = "flat.morph" ->
              LET strel == np_atleast_3d(np_asbool(a.strel))
              IN flat_morph_op_impl(vol.data, strel.data, whole,
                     Reversed(strel.shape), vol.dtype, a.op, whole)
         [] a.f = "gen.morph" ->
              LET strel == np_atleast_3d(np_astype(a.strel, vol.dtype))
              IN gen_dilate_erode_impl(vol.data, strel.data, whole,
                     Reversed(strel.shape), vol.dtype, a.op, whole)
         [] a.f = "flat.linear_morph" ->
              LET line_lens == np_atleast_1d(a.line_lens)
              IN flat_linear_dilate_erode_impl(vol.data,
                     np_flip_axis1(np_atleast_2d(a.line_steps)).data,
                     line_lens.data, whole, line_lens.shape[1], vol.dtype,
                     a.op, whole)

\* C1: dilation and erosion by a 3D structuring element, flat or general,
\* return for every block size the result of processing the whole volume in
\* one pass.
C1_StrelTilingInvariance ==
    (/\ Succeeded
     /\ args.f \in {"flat.morph", "gen.morph"}
     /\ args.op \in {DILATE, ERODE})
    => outcome.value.data = InOnePass(OnePassCall(args))

\* A block smaller than the structuring element that does not divide the
\* volume, on a volume the operation changes.
C1_Witness ==
    /\ Succeeded
    /\ args.f = "gen.morph"
    /\ args.op = DILATE
    /\ args.vol = Textured(TileShape, "int")
    /\ args.strel = Weighted(<<3, 3, 3>>, "int")
    /\ args.block_size = <<2, 2, 2>>
    /\ outcome.value.data # args.vol.data
    /\ outcome.value.data = InOnePass(OnePassCall(args))

\* C3: flat dilation by a boolean mask S returns at every voxel p the
\* maximum of V[p+o] over the offsets o of the true entries of S, measured
\* from the anchor at size \div 2 on each axis, that fall inside the volume.
C3_FlatDilateReference ==
    (/\ Succeeded
     /\ Calls("flat.morph", DILATE) \/ args.f = "flat.dilate"
     /\ args.strel.dtype = "bool")
    => outcome.value = Shaped(FlatRef(DILATE, args.vol, args.strel), args.vol.shape)

\* The test of the suite: a single 1 at (3,3,3) dilated by an all-true
\* 3x4x5 mask gives ones exactly on [2:5, 2:6, 1:6].
C3_Witness ==
    /\ Succeeded
    /\ args.f = "flat.dilate"
    /\ args.vol = TestPoint(0, 1)
    /\ args.strel = Box(<<3, 4, 5>>)
    /\ outcome.value = TestExpected(0, 1)

C5_GenReference ==
    /\ \A op \in {DILATE, ERODE} :
        (/\ Succeeded
         /\ \/ Calls("gen.morph", op)
            \/ Calls("gen.dilate_erode", op)
            \/ args.f = (IF op = DILATE THEN "gen.dilate" ELSE "gen.erode"))
        => outcome.value = Shaped(GenRef(op, args.vol,
                                         np_astype(args.strel, args.vol.dtype)),
                                  args.vol.shape)
    /\ (/\ Succeeded
        /\ Calls("gen.dilate_erode", ERODE) \/ args.f = "gen.erode"
        /\ args.vol = TestPoint(1, 0)
        /\ args.strel = Ones(<<3, 4, 5>>, "int"))
       => outcome.value = TestExpected(0, -1)

C5_Witness ==
    /\ Succeeded
    /\ args.f = "gen.dilate_erode"
    /\ args.op = DILATE
    /\ args.vol = TestPoint(0, 1)
    /\ args.strel = Ones(<<3, 4, 5>>, "int")
    /\ outcome.value = TestExpected(1, 2)

-----------------------------------------------------------------------------
(* Line sets: inputs and specification *)

\* Line sets with diagonal, negative, repeated and non-unit steps and with
\* a segment of length 0.
LineSets ==
    {[steps |-> Steps(<<<<1, 0, 0>>>>), lens |-> Lens(<<MaxLen>>)],
     [steps |-> Steps(<<<<0, 1, 0>>, <<0, 0, 1>>>>), lens |-> Lens(<<2, 3>>)],
     [steps |-> Steps(<<<<1, 1, 0>>>>), lens |-> Lens(<<3>>)],
     [steps |-> Steps(<<<<1, -1, 1>>>>), lens |-> Lens(<<2>>)],
     [steps |-> Steps(<<<<0, 1, -1>>, <<1, 0, 0>>>>), lens |-> Lens(<<MaxLen, 0>>)],
     [steps |-> Steps(<<<<0, 2, 0>>>>), lens |-> Lens(<<2>>)],
     [steps |-> Steps(<<<<0, -1, 1>>, <<0, 1, 1>>>>), lens |-> Lens(<<2, 2>>)],
     [steps |-> AxisSteps, lens |-> Lens(<<2, 3, 2>>)]}

\* The lengths (a, b, c) >= 1 of the three axis-aligned segments of a box.
BoxLens == {Lens(<<a, b, c>>) : a \in 1..MaxLen, b \in 1..MaxLen, c \in 1..MaxLen}

LineShape == <<2, 2, 3>>

LineCalls ==
    {LinearFrame("flat.linear_morph", x.vol, l.steps, l.lens, x.op, b) :
        x \in Polarised(LineShape), l \in LineSets, b \in BlockSizes}
    \cup {LinearFrame("flat.linear_morph", x.vol, AxisSteps, l, x.op,
                      DefaultLinearBlock) :
        x \in Polarised(LineShape), l \in BoxLens}

\* tests/test_flat_linear.py
LineTests ==
    {LinearFrame("flat.linear_morph", TestPoint(0, 1), AxisSteps,
                 Lens(<<3, 4, 5>>), DILATE, DefaultLinearBlock),
     LinearFrame("flat.linear_dilate", TestPoint(0, 1), AxisSteps,
                 Lens(<<3, 4, 5>>), NoOp, DefaultLinearBlock),
     LinearFrame("flat.linear_morph", TestPoint(1, 0), AxisSteps,
                 Lens(<<3, 4, 5>>), ERODE, DefaultLinearBlock),
     LinearFrame("flat.linear_erode", TestPoint(1, 0), AxisSteps,
                 Lens(<<3, 4, 5>>), NoOp, DefaultLinearBlock)}

\* Sets of two and three segments to apply in every order: two segments
\* along one axis in one and in opposite directions, three segments on two
\* axes, and a segment of step 2 with one of step -1 along one axis.
OrderSets ==
    {[steps |-> Steps(<<<<0, 0, 1>>, <<0, 0, 1>>>>), lens |-> Lens(<<2, 3>>)],
     [steps |-> Steps(<<<<0, 0, 1>>, <<0, 0, -1>>>>), lens |-> Lens(<<2, 3>>)],
     [steps |-> Steps(<<<<0, 0, -1>>, <<0, 1, 0>>, <<0, 0, 1>>>>),
      lens |-> Lens(<<2, 2, 2>>)],
     [steps |-> Steps(<<<<0, 0, 2>>, <<0, 0, -1>>>>), lens |-> Lens(<<2, 2>>)]}

OrderCalls ==
    {LinearFrame("flat.linear_morph", x.vol, l.steps, l.lens, x.op,
                 DefaultLinearBlock) :
        x \in Polarised(LineShape), l \in OrderSets}

\* Single lines of 1 to 2 * MaxLen + 1 voxels filtered by one segment of 1 to
\* MaxLen + 1 voxels, forwards and backwards: lines shorter than the
\* segment, of its length, and of lengths it does and does not divide.
FilterCalls ==
    {LinearFrame("flat.linear_morph", Textured(<<1, 1, n>>, t), Steps(<<<<0, 0, d>>>>),
                 Lens(<<len>>), op, b) :
        n \in 1..2 * MaxLen + 1, t \in {"int", "uint"}, d \in {1, -1},
        len \in 1..MaxLen + 1, op \in {DILATE, ERODE},
        b \in {DefaultLinearBlock, <<1, 1, 2>>}}

LineInputs ==
    BaseInputs
    \cup {Input(c, Quiet) :
            c \in LineCalls \cup LineTests \cup OrderCalls \cup FilterCalls}

InitLine == Start(LineInputs)

SpecLine == InitLine /\ [][Next]_vars

-----------------------------------------------------------------------------
(* Claims on line sets *)

\* C2: dilation and erosion by a set of line segments return for every
\* block size the result of filtering each whole line of the full volume in
\* one pass.
C2_LineTilingInvariance ==
    (/\ Succeeded
     /\ args.f = "flat.linear_morph"
     /\ args.op \in {DILATE, ERODE})
    => outcome.value.data = InOnePass(OnePassCall(args))

\* A diagonal segment longer than the block, with blocks that do not divide
\* the volume, on a volume the operation changes.
C2_Witness ==
    /\ Succeeded
    /\ args.f = "flat.linear_morph"
    /\ args.op = ERODE
    /\ args.vol = Textured(LineShape, "int")
    /\ args.line_steps = Steps(<<<<1, 1, 0>>>>)
    /\ args.line_lens = Lens(<<3>>)
    /\ args.block_size = <<2, 2, 2>>
    /\ outcome.value.data # args.vol.data
    /\ outcome.value.data = InOnePass(OnePassCall(args))

\* C6: with the three axis-aligned unit steps and lengths (a, b, c) >= 1,
\* linear dilation and erosion equal flat dilation and erosion by the
\* all-true box with a, b and c cells along the axes of the steps.
C6_LineSetIsBox ==
    \A op \in {DILATE, ERODE} :
        (/\ Succeeded
         /\ \/ Calls("flat.linear_morph", op)
            \/ args.f = (IF op = DILATE THEN "flat.linear_dilate"
                         ELSE "flat.linear_erode")
         /\ args.line_steps = AxisSteps
         /\ \A k \in 1..3 : args.line_lens.data[k] >= 1)
        => outcome.value =
             Shaped(FlatRef(op, args.vol,
                            Box(<<args.line_lens.data[1], args.line_lens.data[2],
                                  args.line_lens.data[3]>>)),
                    args.vol.shape)

\* The test of the suite: lengths 3, 4, 5 on the 7x7x7 volume with a 1 at
\* (3,3,3) give ones exactly on [2:5, 2:6, 1:6].
C6_Witness ==
    /\ Succeeded
    /\ args.f = "flat.linear_dilate"
    /\ args.vol = TestPoint(0, 1)
    /\ args.line_steps = AxisSteps
    /\ args.line_lens = Lens(<<3, 4, 5>>)
    /\ outcome.value = TestExpected(0, 1)

-----------------------------------------------------------------------------
(* Composed operations: inputs and specification *)

\* A bright voxel to open, a dark voxel to close, and a textured volume.
Featured(shape) ==
    {[ops |-> {OPEN, TOPHAT}, vol |-> v] : v \in Impulses(shape, "int", 0, 1)}
    \cup {[ops |-> {CLOSE, BOTHAT}, vol |-> v] : v \in Impulses(shape, "int", 1, 0)}
    \cup {[ops |-> OPEN..BOTHAT, vol |-> Textured(shape, "int")]}

Suffix(op) ==
    CASE op = OPEN -> "open" [] op = CLOSE -> "close"
      [] op = TOPHAT -> "tophat" [] op = BOTHAT -> "bothat"

ComposedStrels ==
    {Box(sh) : sh \in {<<2, 2, 2>>, <<3, 3, 3>>, <<1, 2, 3>>}}
    \cup Pierced(<<1, 2, 2>>)

ComposedLineSets ==
    {l \in LineSets : Len(l.lens.data) = 2 \/ l.lens.data = <<3>>}
    \cup {[steps |-> AxisSteps, lens |-> Lens(<<2, MaxLen, 2>>)]}

ComposedCalls ==
    UNION {
        {StrelFrame("flat.morph", x.vol, s, op, b) :
            op \in x.ops, s \in ComposedStrels, b \in {DefaultBlock, <<1, 2, 2>>}}
        \cup {StrelFrame("gen." \o Suffix(op), x.vol, s, NoOp, b) :
            op \in x.ops, s \in GenStrels, b \in {DefaultBlock, <<2, 1, 2>>}}
        \cup {LinearFrame("flat.linear_" \o Suffix(op), x.vol, l.steps, l.lens,
                          NoOp, b) :
            op \in x.ops, l \in ComposedLineSets,
            b \in {DefaultLinearBlock, <<1, 2, 2>>}} :
        x \in Featured(LineShape)}

\* tests/test_flat.py
ComposedTests ==
    {StrelFrame("flat.morph", TestBox(0, 1), Box(<<3, 3, 3>>), OPEN, DefaultBlock),
     StrelFrame("flat.open", TestBox(0, 1), Box(<<3, 3, 3>>), NoOp, DefaultBlock),
     StrelFrame("flat.morph", TestBox(1, 0), Box(<<3, 3, 3>>), CLOSE, DefaultBlock),
     StrelFrame("flat.close", TestBox(1, 0), Box(<<3, 3, 3>>), NoOp, DefaultBlock)}

ComposedInputs ==
    BaseInputs \cup {Input(c, Quiet) : c \in ComposedCalls \cup ComposedTests}

InitComposed == Start(ComposedInputs)

SpecComposed == InitComposed /\ [][Next]_vars

-----------------------------------------------------------------------------
(* Claims on composed operations *)

\* The operation a call asks for: the op argument of morph, or the one the
\* function is named after.
CallOp(a) ==
    IF a.f = "flat.morph" THEN a.op
    ELSE CASE a.f \in {"flat.open", "gen.open", "flat.linear_open"} -> OPEN
           [] a.f \in {"flat.close", "gen.close", "flat.linear_close"} -> CLOSE
           [] a.f \in {"flat.tophat", "gen.tophat", "flat.linear_tophat"} -> TOPHAT
           [] a.f \in {"flat.bothat", "gen.bothat", "flat.linear_bothat"} -> BOTHAT
           [] OTHER -> NoOp

\* Reference dilation or erosion of V by the structuring element of call a.
RefDilateErode(op, a, V) ==
    CASE a.f \in {"flat.morph", "flat.open", "flat.close", "flat.tophat",
                  "flat.bothat"} -> FlatRef(op, V, a.strel)
      [] a.f \in {"gen.open", "gen.close", "gen.tophat", "gen.bothat"} ->
            GenRef(op, V, np_astype(a.strel, V.dtype))
      [] a.f \in {"flat.linear_open", "flat.linear_close", "flat.linear_tophat",
                  "flat.linear_bothat"} ->
            LinearRef(op, V, a.line_steps, a.line_lens)

RefOpen(a) == RefDilateErode(DILATE, a, RefDilateErode(ERODE, a, a.vol))
RefClose(a) == RefDilateErode(ERODE, a, RefDilateErode(DILATE, a, a.vol))

\* C7: OPEN is erosion followed by dilation and CLOSE is dilation followed
\* by erosion, with the same structuring element or line set, for
\* flat.morph with the op code, gen.open and gen.close, and linear_open and
\* linear_close.
C7_OpenCloseComposition ==
    /\ (Succeeded /\ CallOp(args) = OPEN)
       => outcome.value = Shaped(RefOpen(args), args.vol.shape)
    /\ (Succeeded /\ CallOp(args) = CLOSE)
       => outcome.value = Shaped(RefClose(args), args.vol.shape)
    /\ (Succeeded /\ CallOp(args) = CLOSE /\ args.vol = TestBox(1, 0)
          /\ args.strel = Box(<<3, 3, 3>>))
       => outcome.value = Constant(Cube7, "int", 1)

\* The test of the suite: a 2x2x2 bright box is removed entirely by opening
\* with a 3x3x3 box.
C7_Witness ==
    /\ Succeeded
    /\ args.f = "flat.morph"
    /\ args.op = OPEN
    /\ args.vol = TestBox(0, 1)
    /\ args.strel = Box(<<3, 3, 3>>)
    /\ outcome.value = Constant(Cube7, "int", 0)

\* C8: tophat(V, S) is V - open(V, S) and bothat(V, S) is close(V, S) - V,
\* element by element in the element type, for flat, general and linear
\* structuring elements.
C8_HatsAreDifferences ==
    /\ (Succeeded /\ CallOp(args) = TOPHAT)
       => /\ outcome.value.shape = args.vol.shape
          /\ LET opened == RefOpen(args).data
             IN outcome.value.data =
                  [i \in 1..Len(args.vol.data) |->
                     Wrap(args.vol.dtype, args.vol.data[i] - opened[i])]
    /\ (Succeeded /\ CallOp(args) = BOTHAT)
       => /\ outcome.value.shape = args.vol.shape
          /\ LET closed == RefClose(args).data
             IN outcome.value.data =
                  [i \in 1..Len(args.vol.data) |->
                     Wrap(args.vol.dtype, closed[i] - args.vol.data[i])]

\* A general top-hat that is neither zero nor the input.
C8_Witness ==
    /\ Succeeded
    /\ args.f = "gen.tophat"
    /\ args.vol = Textured(LineShape, "int")
    /\ args.strel = Ones(<<2, 2, 2>>, "int")
    /\ outcome.value.data # args.vol.data
    /\ \E i \in 1..Len(outcome.value.data) : outcome.value.data[i] # 0
    /\ LET opened == RefOpen(args).data
       IN outcome.value.data =
            [i \in 1..Len(args.vol.data) |-> Wrap("int", args.vol.data[i] - opened[i])]

-----------------------------------------------------------------------------
(* Claims on errors *)

\* C10: raise_on_error returns normally only for code 0; it raises
\* ValueError for the codes 1, 2, 3 and for every unknown code, and
\* RuntimeError for the codes 4 and 5.  Stated of every code the engine
\* reported to the bindings.
C10_ErrorCodeTranslation ==
    \A i \in 1..Len(env.reported) :
        LET error_code == env.reported[i]
            r == raise_on_error(error_code)
        IN CASE error_code = SUCCESS -> ~r.raised
             [] error_code \in {ERR_NO_AVAILABLE_CUDA_DEVICE, ERR_UNCAUGHT_EXCEPTION} ->
                    r.raised /\ r.exc = "RuntimeError"
             [] OTHER -> r.raised /\ r.exc = "ValueError"

\* C9: every call either returns a fully computed result after the engine
\* reported code 0, or raises; once the engine reported a nonzero code the
\* call raises and no result reaches the caller.
C9_NoSilentPartialResult ==
    Done =>
        \/ outcome.kind = "raise"
        \/ /\ outcome.kind = "return"
           /\ \A i \in 1..Len(env.reported) : env.reported[i] = SUCCESS
           /\ args.f \notin {"strel.flatBallApprox", "cuda.get_device_name"}
                => \A i \in 1..Len(outcome.value.data) : outcome.value.data[i] # Uninit

-----------------------------------------------------------------------------
(* Volumes of one, two and three dimensions, arrays and plain lists:        *)
(* inputs and specification                                                 *)

\* [0, 0, 1, 0, 0]
Spike == <<0, 0, 1, 0, 0>>

LowArrays ==
    {Array(<<5>>, "int", Spike), Textured(<<2, 3>>, "int"),
     Textured(<<2, 3>>, "uint"), Textured(<<1, 2, 3>>, "int")}

LowLists ==
    {PyList(<<5>>, Spike), PyList(<<2, 3>>, Textured(<<2, 3>>, "int").data)}

LowVolumes == LowArrays \cup LowLists

\* Masks: a single point, a window of three, a 2 x 2 square, as arrays of
\* booleans or numbers and as a list.
LowStrels ==
    {Box(<<1>>), Box(<<3>>), Box(<<2, 2>>), Box(<<1, 1, 1>>),
     Array(<<1>>, "int", <<1>>), PyList(<<3>>, <<1, 1, 1>>)}

\* Line sets: lengths all zero, a zero length between longer segments, one
\* segment along the second axis given as lists and numbers.
LowLineSets ==
    {[steps |-> AxisSteps, lens |-> Lens(<<0, 0, 0>>)],
     [steps |-> AxisSteps, lens |-> Lens(<<2, 0, 2>>)],
     [steps |-> AxisSteps, lens |-> PyList(<<3>>, <<1, 0, 3>>)],
     [steps |-> Steps(<<<<0, 1, 0>>>>), lens |-> Lens(<<3>>)],
     [steps |-> Steps(<<<<0, 1, 0>>>>), lens |-> Lens(<<0>>)],
     [steps |-> PyList(<<3>>, <<0, 1, 0>>), lens |-> PyScalar(3)],
     [steps |-> PyList(<<3>>, <<0, 1, 0>>), lens |-> PyScalar(0)]}

LowBlocks == {DefaultBlock, <<1, 2, 1>>}

LowCalls ==
    StrelCalls(LowVolumes, LowStrels, LowBlocks)
    \cup {StrelFrame(f, v, s, op, DefaultBlock) :
            f \in {"flat.morph", "gen.morph", "flat.dilate_erode", "gen.dilate_erode"},
            v \in LowVolumes, s \in LowStrels, op \in {DILATE, ERODE}}
    \cup {LinearFrame(f, v, l.steps, l.lens, NoOp, b) :
            f \in {"flat.linear_dilate", "flat.linear_erode", "flat.linear_open",
                   "flat.linear_close", "flat.linear_tophat", "flat.linear_bothat"},
            v \in LowVolumes, l \in LowLineSets, b \in LowBlocks}
    \cup {LinearFrame(f, v, l.steps, l.lens, op, DefaultLinearBlock) :
            f \in {"flat.linear_morph", "flat.linear_dilate_erode"},
            v \in LowVolumes, l \in LowLineSets, op \in {DILATE, ERODE}}

\* tests/test_flat.py and tests/test_flat_linear.py: test_resize and
\* test_non_numpy_input.
LowTests ==
    {StrelFrame("flat.dilate", Ones(<<3, 3>>, "int"), Array(<<1>>, "int", <<1>>),
                NoOp, DefaultBlock),
     LinearFrame("flat.linear_dilate", Ones(<<3, 3>>, "int"),
                 PyList(<<3>>, <<1, 0, 0>>), Array(<<1>>, "int", <<1>>),
                 NoOp, DefaultLinearBlock),
     StrelFrame("flat.dilate", PyList(<<5>>, Spike), PyList(<<3>>, <<1, 1, 1>>),
                NoOp, DefaultBlock),
     LinearFrame("flat.linear_dilate", PyList(<<5>>, Spike),
                 PyList(<<3>>, <<0, 1, 0>>), PyScalar(3), NoOp, DefaultLinearBlock)}

\* Masks given as arrays and lists of numbers other than 0 and 1.
MaskStrels ==
    {Array(<<3>>, "int", <<2, 0, 3>>), Array(<<2, 2>>, "int", <<-1, 0, 0, 3>>),
     Array(<<1, 2, 2>>, "uint", <<0, 5, 1, 0>>), Array(<<3>>, "int", <<0, 0, 0>>),
     PyList(<<3>>, <<0, -2, 2>>)}

MaskVolumes ==
    {Array(<<5>>, "int", Spike), Textured(<<2, 3>>, "int"),
     Textured(<<1, 2, 3>>, "uint")}

\* tests/test_flat.py, test_bool_conversion: a mask of np.ones((3,4,5)).
MaskTests ==
    {StrelFrame("flat.dilate", TestPoint(0, 1), Ones(<<3, 4, 5>>, "int"),
                NoOp, DefaultBlock)}

MaskCalls ==
    {StrelFrame(f, v, s, NoOp, b) :
        f \in {"flat.dilate", "flat.erode"},
        v \in MaskVolumes, s \in MaskStrels, b \in LowBlocks}
    \cup {StrelFrame(f, v, s, op, DefaultBlock) :
            f \in {"flat.morph", "flat.dilate_erode"},
            v \in MaskVolumes, s \in MaskStrels, op \in {DILATE, ERODE}}
    \cup MaskTests

\* What flatBallApprox(0) returns, handed to the linear functions.
BallSet ==
    [steps |-> Array(<<LINE_COUNT, 3>>, "int32", BallSteps),
     lens |-> Array(<<LINE_COUNT>>, "int32", BallLens(0, BEST))]

BallCalls ==
    {LinearFrame(f, v, BallSet.steps, BallSet.lens, NoOp, b) :
        f \in {"flat.linear_dilate", "flat.linear_erode"},
        v \in {Textured(<<2, 3>>, "int"), Textured(<<1, 2, 3>>, "uint")},
        b \in LowBlocks}
    \cup {LinearFrame(f, Textured(<<1, 2, 3>>, "int"), BallSet.steps, BallSet.lens,
                      op, DefaultLinearBlock) :
            f \in {"flat.linear_morph", "flat.linear_dilate_erode"},
            op \in {DILATE, ERODE}}

LowInputs ==
    BaseInputs
    \cup {Input(c, Quiet) :
            c \in LowCalls \cup LowTests \cup MaskCalls \cup BallCalls}

InitLow == Start(LowInputs)

SpecLow == InitLow /\ [][Next]_vars

-----------------------------------------------------------------------------
(* Claims on shapes, types and inputs *)

\* The call filters a volume.
OnVolume == "vol" \in DOMAIN args

\* C11: every operation on a volume (flat, general and linear; dilate,
\* erode, open, close, tophat, bothat) that succeeds returns an array with
\* exactly the shape and the element type of the volume passed in, for
\* volumes of one, two and three dimensions.
C11_ShapeAndTypePreserved ==
    (Succeeded /\ OnVolume)
        => /\ IsArray(outcome.value)
           /\ outcome.value.shape = np_asarray(args.vol).shape
           /\ outcome.value.dtype = np_asarray(args.vol).dtype
           /\ Len(outcome.value.data) = Prod(np_asarray(args.vol).shape)

\* A bottom-hat of a two-dimensional volume of unsigned numbers.
C11_Witness ==
    /\ Succeeded
    /\ args.f = "gen.bothat"
    /\ args.vol = Textured(<<2, 3>>, "uint")
    /\ args.strel = Box(<<2, 2>>)
    /\ outcome.value.shape = <<2, 3>>
    /\ outcome.value.dtype = "uint"

\* The call is one flat dilation or erosion; one linear dilation or erosion.
FlatDilateErode ==
    \/ args.f \in {"flat.dilate", "flat.erode"}
    \/ args.f \in {"flat.morph", "flat.dilate_erode"} /\ args.op \in {DILATE, ERODE}

LinearDilateErode ==
    \/ args.f \in {"flat.linear_dilate", "flat.linear_erode"}
    \/ /\ args.f \in {"flat.linear_morph", "flat.linear_dilate_erode"}
       /\ args.op \in {DILATE, ERODE}

\* The structuring element is the single point at the anchor.
SinglePoint(strel) ==
    LET S == np_asarray(strel)
    IN Len(S.data) = 1 /\ (IF S.dtype = "bool" THEN S.data[1] ELSE S.data[1] # 0)

AllZero(lens) ==
    LET l == np_asarray(lens)
    IN \A k \in 1..Len(l.data) : l.data[k] = 0

\* C12: a flat dilation or erosion by a single-point structuring element
\* returns the volume unchanged, and so does a linear dilation or erosion
\* whose lengths are all 0; a pass of length 0 inside a longer line set
\* leaves its input unchanged.
C12_Identity ==
    /\ (Succeeded /\ OnVolume /\ FlatDilateErode /\ SinglePoint(args.strel))
          => outcome.value = np_asarray(args.vol)
    /\ (Succeeded /\ OnVolume /\ LinearDilateErode /\ AllZero(args.line_lens))
          => outcome.value = np_asarray(args.vol)
    /\ (/\ eng.busy /\ eng.fn = "line"
        /\ eng.stages # <<>> /\ eng.pending = {} /\ eng.running = {})
          => (Head(eng.stages).line.len = 0 => eng.dst = eng.src)

\* A pass of length 0 has run after a pass that changed the volume.
C12_Witness ==
    /\ eng.busy /\ eng.fn = "line"
    /\ args.f = "flat.linear_dilate"
    /\ eng.stages # <<>> /\ eng.pending = {} /\ eng.running = {}
    /\ Head(eng.stages).line.len = 0
    /\ eng.src # eng.orig
    /\ eng.dst = eng.src

\* A flat erosion by a single point, and a linear dilation with all lengths
\* 0, have returned a volume that is not constant.
C12_WitnessFlat ==
    /\ Succeeded
    /\ args.f = "flat.erode"
    /\ args.vol = Textured(<<2, 3>>, "uint")
    /\ args.strel = Array(<<1>>, "int", <<1>>)
    /\ outcome.value = args.vol

C12_WitnessLinear ==
    /\ Succeeded
    /\ args.f = "flat.linear_dilate"
    /\ args.vol = Textured(<<2, 3>>, "int")
    /\ args.line_lens = Lens(<<0, 0, 0>>)
    /\ outcome.value = args.vol

-----------------------------------------------------------------------------
(* Opening and closing applied twice: inputs and specification *)

\* A plus-shaped mask in the plane of the last two axes.
Cross ==
    Array(<<1, 3, 3>>, "bool",
          <<FALSE, TRUE, FALSE,  TRUE, TRUE, TRUE,  FALSE, TRUE, FALSE>>)

\* Masks whose entries mirror through the anchor, and masks that do not:
\* even extents, and odd extents with an entry missing on one side.
MirrorStrels == {Box(<<1, 1, 3>>), Box(<<3, 3, 3>>), Box(<<1, 3, 1>>), Cross}
SkewStrels ==
    {Box(<<1, 1, 2>>), Box(<<2, 2, 2>>), Box(<<1, 2, 3>>),
     Array(<<1, 1, 3>>, "bool", <<TRUE, TRUE, FALSE>>)}

\* Volumes with bright and dark voxels at the border.
Striped(shape) ==
    {Array(shape, "int", [i \in 1..Prod(shape) |-> IF (i % m) = r THEN 1 ELSE 0]) :
        m \in 2..3, r \in 0..1}

TwiceVolumes == Striped(LineShape) \cup {Textured(LineShape, "int")}

TwiceCalls ==
    {StrelFrame(f, v, s, NoOp, b) :
        f \in {"flat.open", "flat.close"}, v \in TwiceVolumes,
        s \in MirrorStrels \cup SkewStrels, b \in {DefaultBlock, <<1, 2, 2>>}}
    \cup {StrelFrame("flat.morph", v, s, op, DefaultBlock) :
        v \in TwiceVolumes, s \in MirrorStrels \cup SkewStrels, op \in {OPEN, CLOSE}}

TwiceInputs == BaseInputs \cup {Input(c, Quiet) : c \in TwiceCalls \cup ComposedTests}

InitTwice == Start(TwiceInputs)

SpecTwice == InitTwice /\ [][Next]_vars

-----------------------------------------------------------------------------
(* Claims on algebraic relations *)

\* The call is a flat opening; a flat closing.
FlatOpen == args.f = "flat.open" \/ (args.f = "flat.morph" /\ args.op = OPEN)
FlatClose == args.f = "flat.close" \/ (args.f = "flat.morph" /\ args.op = CLOSE)

\* The mask has odd extents and equal entries at o and -o for every offset o.
Mirrored(strel) ==
    LET S == As3D(np_asbool(np_asarray(strel)))
        n == Len(S.data)
    IN /\ \A k \in 1..3 : S.shape[k] % 2 = 1
       /\ \A i \in 1..n : S.data[i] = S.data[n + 1 - i]

\* The same operation applied to the value the call returned.
Again(op) ==
    InOnePass(OnePassCall([f |-> "flat.morph", op |-> op, vol |-> outcome.value,
                           strel |-> np_asarray(args.strel)]))

\* C13, as it holds: opening an opened volume, or closing a closed one, with
\* the same flat structuring element changes nothing when the structuring
\* element mirrors through its anchor (odd extents, equal entries at o and
\* -o), voxels at the volume border included.
C13_IdempotentWhenMirrored ==
    /\ (Succeeded /\ FlatOpen /\ Mirrored(args.strel))
          => Again(OPEN) = outcome.value.data
    /\ (Succeeded /\ FlatClose /\ Mirrored(args.strel))
          => Again(CLOSE) = outcome.value.data

\* C13, as stated: open(open(V, S), S) = open(V, S) and
\* close(close(V, S), S) = close(V, S) for every flat structuring element,
\* even extents with an off-centre anchor included.
C13_Idempotent ==
    /\ (Succeeded /\ FlatOpen) => Again(OPEN) = outcome.value.data
    /\ (Succeeded /\ FlatClose) => Again(CLOSE) = outcome.value.data

\* An opening with the plus-shaped mask that changed the volume, border
\* voxels among them, and that a second opening leaves alone.
C13_Witness ==
    /\ Succeeded
    /\ args.f = "flat.open"
    /\ args.strel = Cross
    /\ outcome.value.data # args.vol.data
    /\ outcome.value.data[1] # args.vol.data[1]
    /\ Again(OPEN) = outcome.value.data

\* The call is one general erosion.
GenErode ==
    \/ args.f = "gen.erode"
    \/ args.f \in {"gen.morph", "gen.dilate_erode"} /\ args.op = ERODE

\* -V in the element type, and S with its entries in reverse order: for odd
\* extents the entry of offset o moves to offset -o.
Negated(V) ==
    Fresh(V.shape, [i \in 1..Len(V.data) |-> Wrap(V.dtype, 0 - V.data[i])], V.dtype)
Reflected(S) ==
    Fresh(S.shape, [i \in 1..Len(S.data) |-> S.data[Len(S.data) + 1 - i]], S.dtype)

OddExtents(S) == \A k \in 1..Len(S.shape) : S.shape[k] % 2 = 1

\* The element type is signed and no sum or difference of a voxel and a
\* weight, nor its negation, leaves it.
InRange(V, S) ==
    /\ V.dtype = "int"
    /\ \A i \in 1..Len(V.data), j \in 1..Len(S.data) :
          /\ V.data[i] - S.data[j] > TypeMin("int")
          /\ V.data[i] - S.data[j] <= TypeMax("int")

\* -dilate(-V, S) of the general dilation, voxel by voxel.
DualOfDilate(V, S) ==
    LET dilated == InOnePass(OnePassCall([f |-> "gen.morph", op |-> DILATE,
                                          vol |-> Negated(V), strel |-> S]))
    IN [i \in 1..Len(dilated) |-> Wrap(V.dtype, 0 - dilated[i])]

GenStrel == np_astype(np_asarray(args.strel), np_asarray(args.vol).dtype)

\* C14, as it holds: for every volume V of a signed type, every general
\* structuring element S whose sums with V stay in the type, and every
\* voxel p, erode(V, S)[p] = -dilate(-V, S)[p] with the same S: dilation and
\* erosion read the same voxels p + o.
C14_DualitySameStrel ==
    (Succeeded /\ GenErode /\ InRange(np_asarray(args.vol), GenStrel))
        => outcome.value.data = DualOfDilate(np_asarray(args.vol), GenStrel)

\* C14, as stated: erode(V, S)[p] = -dilate(-V, S_reflected)[p], where
\* S_reflected is S with every offset negated.  Stated for odd extents,
\* where reversing the entries negates every offset, and sums that stay in
\* the type.
C14_DualityReflected ==
    (Succeeded /\ GenErode /\ OddExtents(GenStrel)
       /\ InRange(np_asarray(args.vol), GenStrel))
        => outcome.value.data =
              DualOfDilate(np_asarray(args.vol), Reflected(GenStrel))

\* An erosion by a kernel of unequal weights that changed the volume.
C14_Witness ==
    /\ Succeeded
    /\ args.f = "gen.morph" /\ args.op = ERODE
    /\ args.strel = Weighted(<<3, 3, 3>>, "int")
    /\ args.vol = Textured(TileShape, "int")
    /\ InRange(args.vol, args.strel)
    /\ outcome.value.data # args.vol.data
    /\ outcome.value.data = DualOfDilate(args.vol, args.strel)

-----------------------------------------------------------------------------
(* Calls that must be refused: inputs and specification *)

\* []
Empty == PyList(<<0>>, <<>>)

\* Op codes outside the six operations.
BadOps == {99, NoOp, BOTHAT + 1}

ErrVolume == Textured(<<1, 2, 3>>, "int")

\* flat.morph and flat.linear_morph with a bad op code, on good, empty and
\* inconvertible inputs.
BadOpCalls ==
    {StrelFrame("flat.morph", x.vol, x.strel, op, DefaultBlock) :
        op \in BadOps,
        x \in {[vol |-> ErrVolume, strel |-> BaseStrel],
               [vol |-> Empty, strel |-> Empty],
               [vol |-> Ragged, strel |-> BaseStrel],
               [vol |-> ErrVolume, strel |-> Ragged]}}
    \cup {LinearFrame("flat.linear_morph", x.vol, x.steps, x.lens, op,
                      DefaultLinearBlock) :
        op \in BadOps,
        x \in {[vol |-> ErrVolume, steps |-> AxisSteps, lens |-> BaseLens],
               [vol |-> Empty, steps |-> Empty, lens |-> Empty],
               [vol |-> Ragged, steps |-> AxisSteps, lens |-> BaseLens],
               [vol |-> ErrVolume, steps |-> Ragged, lens |-> BaseLens]}}

\* Inconvertible inputs with a good op code.
RaggedCalls ==
    {StrelFrame(f, x.vol, x.strel, ERODE, DefaultBlock) :
        f \in {"flat.morph", "gen.morph", "flat.dilate_erode", "gen.dilate_erode"},
        x \in {[vol |-> Ragged, strel |-> BaseStrel],
               [vol |-> ErrVolume, strel |-> Ragged]}}
    \cup {LinearFrame(f, x.vol, x.steps, x.lens, DILATE, DefaultLinearBlock) :
        f \in {"flat.linear_morph", "flat.linear_dilate_erode"},
        x \in {[vol |-> Ragged, steps |-> AxisSteps, lens |-> BaseLens],
               [vol |-> ErrVolume, steps |-> Ragged, lens |-> BaseLens],
               [vol |-> ErrVolume, steps |-> AxisSteps, lens |-> Ragged]}}

\* tests/test_flat.py and tests/test_flat_linear.py: test_invalid_op.
BadOpTests ==
    {StrelFrame("flat.morph", Empty, Empty, 99, DefaultBlock),
     LinearFrame("flat.linear_morph", Empty, Empty, Empty, 99, DefaultLinearBlock)}

\* Line sets that are not N rows of three components with N lengths:
\* rows of two and of four components, a single number, a 3D array, and
\* three step vectors with two lengths.
MalformedLineSets ==
    {[steps |-> Array(<<2, 2>>, "int32", <<1, 0, 0, 1>>), lens |-> Lens(<<1, 1>>)],
     [steps |-> PyList(<<2>>, <<1, 0>>), lens |-> PyScalar(1)],
     [steps |-> PyScalar(1), lens |-> PyScalar(1)],
     [steps |-> Array(<<1, 4>>, "int32", <<1, 0, 0, 0>>), lens |-> Lens(<<1>>)],
     [steps |-> Array(<<1, 1, 3>>, "int32", <<1, 0, 0>>), lens |-> Lens(<<1>>)],
     [steps |-> AxisSteps, lens |-> Lens(<<1, 1>>)]}

LinearWrappers ==
    {"flat.linear_dilate", "flat.linear_erode", "flat.linear_open",
     "flat.linear_close", "flat.linear_tophat", "flat.linear_bothat"}

MalformedCalls ==
    {LinearFrame(f, v, l.steps, l.lens, NoOp, DefaultLinearBlock) :
        f \in LinearWrappers, v \in {ErrVolume, Empty}, l \in MalformedLineSets}
    \cup {LinearFrame("flat.linear_morph", v, l.steps, l.lens, op, DefaultLinearBlock) :
        v \in {ErrVolume, Empty}, l \in MalformedLineSets, op \in {DILATE, ERODE}}
    \cup {LinearFrame("flat.linear_dilate_erode", ErrVolume, l.steps, l.lens, op,
                      DefaultLinearBlock) :
        l \in MalformedLineSets, op \in {DILATE, ERODE}}

\* Well-formed line sets with a negative length, and with lengths 0 and 1
\* only.
NegativeLineSets ==
    {[steps |-> Steps(<<<<0, 0, 1>>>>), lens |-> Lens(<<-1>>)],
     [steps |-> AxisSteps, lens |-> Lens(<<1, -2, 0>>)],
     [steps |-> PyList(<<3>>, <<0, 1, 0>>), lens |-> PyScalar(-1)]}
UnitLineSets ==
    {[steps |-> AxisSteps, lens |-> Lens(<<0, 1, 1>>)],
     [steps |-> Steps(<<<<0, 0, 1>>>>), lens |-> Lens(<<1>>)],
     [steps |-> PyList(<<3>>, <<0, 1, 0>>), lens |-> PyScalar(0)]}

LengthCalls ==
    {LinearFrame(f, ErrVolume, l.steps, l.lens, NoOp, DefaultLinearBlock) :
        f \in LinearWrappers, l \in NegativeLineSets \cup UnitLineSets}
    \cup {LinearFrame(f, ErrVolume, l.steps, l.lens, op, DefaultLinearBlock) :
        f \in {"flat.linear_morph", "flat.linear_dilate_erode"},
        l \in NegativeLineSets \cup UnitLineSets, op \in {DILATE, ERODE}}

\* The primitive entry points with each of the six op codes.
SixOpCalls ==
    {StrelFrame(f, ErrVolume, s, op, DefaultBlock) :
        f \in {"gen.morph", "gen.dilate_erode"},
        s \in {Ones(<<1, 2, 2>>, "int"), BaseStrel}, op \in DILATE..BOTHAT}
    \cup {StrelFrame("flat.morph", v, BaseStrel, op, DefaultBlock) :
        v \in {ErrVolume, PyList(<<3>>, <<0, 1, 0>>)}, op \in DILATE..BOTHAT}
    \cup {LinearFrame(f, ErrVolume, AxisSteps, BaseLens, op, DefaultLinearBlock) :
        f \in {"flat.linear_morph", "flat.linear_dilate_erode"},
        op \in DILATE..BOTHAT}

ErrorCalls ==
    BadOpCalls \cup RaggedCalls \cup BadOpTests \cup MalformedCalls
    \cup LengthCalls \cup SixOpCalls

ErrorInputs == BaseInputs \cup {Input(c, Quiet) : c \in ErrorCalls}

InitErrors == Start(ErrorInputs)

SpecErrors == InitErrors /\ [][Next]_vars

-----------------------------------------------------------------------------
(* Claims on refused calls *)

\* The call has not begun, or it has ended with an AssertionError; the
\* engine was never entered.
Untouched == stack = <<Owned(args)>>
Refused ==
    /\ ~eng.busy
    /\ env.reported = <<>>
    /\ \/ Untouched
       \/ Done /\ outcome = [kind |-> "raise", exc |-> "AssertionError"]

\* C15: flat.morph and flat.linear_morph called with an op code outside the
\* six operations (such as 99) raise AssertionError before any input is
\* converted and before the engine is entered, with empty inputs too.
C15_InvalidOpRefused ==
    (args.f \in {"flat.morph", "flat.linear_morph"} /\ ~ValidOp(args.op))
        => Refused

\* tests/test_flat.py, test_invalid_op: pg.flat.morph([], [], 99).
C15_Witness ==
    /\ Done
    /\ args.f = "flat.morph" /\ args.op = 99
    /\ args.vol = Empty /\ args.strel = Empty
    /\ outcome = [kind |-> "raise", exc |-> "AssertionError"]
    /\ env.reported = <<>>

\* A bad op code with a volume that cannot be converted.
C15_WitnessRagged ==
    /\ Done
    /\ args.f = "flat.linear_morph" /\ args.op = 99
    /\ args.vol = Ragged
    /\ outcome = [kind |-> "raise", exc |-> "AssertionError"]

\* The step array after normalisation is not N rows of exactly three
\* components, or there are not N lengths.
Malformed(steps, lens) ==
    LET line_steps == np_atleast_2d(np_asarray(steps))
        line_lens == np_atleast_1d(np_asarray(lens))
    IN \/ Len(line_steps.shape) # 2
       \/ line_steps.shape[2] # 3
       \/ line_steps.shape[1] # line_lens.shape[1]

\* A linear call whose op code and inputs pass up to the checks of the line
\* set: through linear_morph and its wrappers, and through the earlier
\* linear_dilate_erode.
ThroughLinearMorph ==
    /\ args.f \in LinearWrappers
          \/ (args.f = "flat.linear_morph" /\ args.op \in {DILATE, ERODE})
    /\ Convertible(args.vol)
    /\ Convertible(args.line_steps) /\ Convertible(args.line_lens)

ThroughLinearDilateErode ==
    /\ args.f = "flat.linear_dilate_erode" /\ args.op \in {DILATE, ERODE}
    /\ IsArray(args.vol)
    /\ Convertible(args.line_steps) /\ Convertible(args.line_lens)

\* The call has not reached linear_morph's checks, or it has ended with an
\* AssertionError; the engine was never entered.
RefusedByAssertion ==
    /\ ~eng.busy
    /\ env.reported = <<>>
    /\ Done => outcome = [kind |-> "raise", exc |-> "AssertionError"]

\* C16: a linear operation fails with AssertionError, without entering the
\* engine, whenever the step array after normalisation is not N rows of
\* exactly three components or the number of step vectors differs from the
\* number of lengths.
C16_MalformedLineSetRefused ==
    ((ThroughLinearMorph \/ ThroughLinearDilateErode)
       /\ Malformed(args.line_steps, args.line_lens))
        => RefusedByAssertion

\* The same for linear_morph and its wrappers alone.
C16_LinearMorphRefuses ==
    (ThroughLinearMorph /\ Malformed(args.line_steps, args.line_lens))
        => RefusedByAssertion

\* tests/test_flat_linear.py, test_valid_dims: linear_dilate([], 1, 1).
C16_Witness ==
    /\ Done
    /\ args.f = "flat.linear_dilate"
    /\ args.vol = Empty
    /\ args.line_steps = PyScalar(1) /\ args.line_lens = PyScalar(1)
    /\ outcome = [kind |-> "raise", exc |-> "AssertionError"]
    /\ env.reported = <<>>

HasNegative(lens) ==
    LET l == np_asarray(lens)
    IN \E k \in 1..Len(l.data) : l.data[k] < 0

ZeroOrOne(lens) ==
    LET l == np_asarray(lens)
    IN \A k \in 1..Len(l.data) : l.data[k] \in {0, 1}

\* A linear call with a well-formed line set.
WellFormedLinear ==
    /\ ThroughLinearMorph \/ ThroughLinearDilateErode
    /\ ~Malformed(args.line_steps, args.line_lens)

\* C17: a line set with a negative length is refused with an error and never
\* reaches the filtering passes; lengths 0 and 1 are accepted.
C17_NegativeLengthsRefused ==
    /\ (WellFormedLinear /\ HasNegative(args.line_lens))
          => /\ ~eng.busy
             /\ env.reported = <<>>
             /\ Done => outcome.kind = "raise"
    /\ (WellFormedLinear /\ ZeroOrOne(args.line_lens) /\ env.fault = SUCCESS)
          => (Done => outcome.kind = "return")

\* Lengths 0 and 1 are accepted.
C17_UnitLengthsAccepted ==
    (WellFormedLinear /\ ZeroOrOne(args.line_lens) /\ env.fault = SUCCESS)
        => (Done => outcome.kind = "return")

\* A call with a negative length has returned a volume.
C17_NegativeLengthReturned ==
    /\ Done
    /\ args.f = "flat.linear_dilate"
    /\ args.line_lens = Lens(<<-1>>)
    /\ outcome.kind = "return"

\* The call ends without an AssertionError.
Accepted == Done => outcome # [kind |-> "raise", exc |-> "AssertionError"]

\* C18: gen.morph and flat.linear_morph take DILATE and ERODE only: with
\* OPEN, CLOSE, TOPHAT or BOTHAT they raise AssertionError and compute
\* nothing; flat.morph takes all six codes.
C18_PrimitiveOperationSets ==
    /\ (args.f \in {"gen.morph", "flat.linear_morph"} /\ args.op \in OPEN..BOTHAT)
          => Refused
    /\ (args.f = "gen.morph" /\ args.op \in {DILATE, ERODE})
          => Accepted
    /\ (args.f = "flat.linear_morph" /\ args.op \in {DILATE, ERODE}
          /\ ThroughLinearMorph /\ ~Malformed(args.line_steps, args.line_lens))
          => Accepted
    /\ (args.f = "flat.morph" /\ ValidOp(args.op))
          => /\ Accepted
             /\ (Done /\ env.fault = SUCCESS /\ Convertible(args.vol)
                   /\ Convertible(args.strel)) => outcome.kind = "return"

\* gen.morph has refused a top-hat.
C18_Witness ==
    /\ Done
    /\ args.f = "gen.morph" /\ args.op = TOPHAT
    /\ outcome = [kind |-> "raise", exc |-> "AssertionError"]
    /\ env.reported = <<>>

\* flat.morph has computed a bottom-hat.
C18_WitnessFlat ==
    /\ Succeeded
    /\ args.f = "flat.morph" /\ args.op = BOTHAT
    /\ env.reported = <<SUCCESS>>

-----------------------------------------------------------------------------
(* Claims on the caller's arrays *)

\* The arrays a frame writes or hands on as results: its output buffer, and
\* in linear_morph the flipped step vectors.
WorkArrays(frame) ==
    (IF "res" \in DOMAIN frame /\ IsArray(frame.res) THEN {frame.res} ELSE {})
    \cup (IF frame.f = "flat.linear_morph" /\ frame.pc # "start"
          THEN {frame.line_steps} ELSE {})

\* C19: during and after every operation, successful or failed, the
\* caller's volume, structuring element, step vectors and lengths hold the
\* values they held before the call; the output buffers, the flipped step
\* vectors and the intermediate results of open and close are not the
\* caller's arrays, and the value returned is a newly allocated array.
C19_InputsReadOnly ==
    /\ env.mem = CallerMem(args)
    /\ \A k \in 1..Len(stack) : \A a \in WorkArrays(stack[k]) : ~OwnedByCaller(a)
    /\ (OnVolume /\ IsArray(rv)) => ~OwnedByCaller(rv)
    /\ (Done /\ outcome.kind = "return" /\ OnVolume) => ~OwnedByCaller(outcome.value)

\* A linear closing that changed the volume has returned; the caller's
\* arrays are as they were.
C19_Witness ==
    /\ Succeeded
    /\ args.f = "flat.linear_close"
    /\ outcome.value.data # args.vol.data
    /\ env.mem = [vol |-> args.vol.data, line_steps |-> args.line_steps.data,
                  line_lens |-> args.line_lens.data]

\* A dilation that failed after the engine had written part of its output;
\* the caller's arrays are as they were.
C19_WitnessFailed ==
    /\ Done
    /\ args.f = "flat.dilate"
    /\ outcome.kind = "raise"
    /\ env.reported = <<ERR_BAD_TYPE>>
    /\ env.mem = [vol |-> args.vol.data, strel |-> args.strel.data]

-----------------------------------------------------------------------------
(* Claims on lists and low dimensions *)

\* The operation a call of a flat or linear function asks for.
AskedOp(a) ==
    CASE a.f \in {"flat.dilate", "flat.linear_dilate"} -> DILATE
      [] a.f \in {"flat.erode", "flat.linear_erode"} -> ERODE
      [] a.f \in {"flat.morph", "flat.dilate_erode", "flat.linear_morph",
                  "flat.linear_dilate_erode"} -> a.op
      [] OTHER -> CallOp(a)

FlatCall(a) ==
    a.f \in {"flat.morph", "flat.dilate_erode", "flat.dilate", "flat.erode",
             "flat.open", "flat.close", "flat.tophat", "flat.bothat"}
LinearCall(a) ==
    a.f \in LinearWrappers \cup {"flat.linear_morph", "flat.linear_dilate_erode"}
EarlierEntryPoint(a) == a.f \in {"flat.dilate_erode", "flat.linear_dilate_erode"}

\* The call with the equivalent arrays in place of lists and numbers.
WithArrays(a) ==
    IF FlatCall(a)
    THEN [f |-> "flat.morph", vol |-> np_asarray(a.vol),
          strel |-> np_asbool(np_asarray(a.strel))]
    ELSE [f |-> "flat.linear_open", vol |-> np_asarray(a.vol),
          line_steps |-> np_atleast_2d(np_asarray(a.line_steps)),
          line_lens |-> np_atleast_1d(np_asarray(a.line_lens))]

\* The result the operation has on the equivalent arrays.
OnArrays(a) ==
    LET b == WithArrays(a)
        V == b.vol
        op == AskedOp(a)
        opened == RefOpen(b).data
        closed == RefClose(b).data
    IN Fresh(V.shape,
             CASE op \in {DILATE, ERODE} -> RefDilateErode(op, b, V).data
               [] op = OPEN -> opened
               [] op = CLOSE -> closed
               [] op = TOPHAT ->
                    [i \in 1..Len(V.data) |-> Wrap(V.dtype, V.data[i] - opened[i])]
               [] op = BOTHAT ->
                    [i \in 1..Len(V.data) |-> Wrap(V.dtype, closed[i] - V.data[i])],
             V.dtype)

\* A flat or linear call on lists, numbers or arrays that convert to a
\* volume of at most three dimensions and a well-formed structuring element.
Filterable(a) ==
    /\ "vol" \in DOMAIN a /\ Convertible(a.vol)
    /\ \/ FlatCall(a) /\ Convertible(a.strel)
       \/ /\ LinearCall(a)
          /\ Convertible(a.line_steps) /\ Convertible(a.line_lens)
          /\ ~Malformed(a.line_steps, a.line_lens)
          /\ ~HasNegative(a.line_lens)
    /\ a.f \in {"flat.morph"} => ValidOp(a.op)
    /\ a.f \in {"flat.dilate_erode", "flat.linear_morph", "flat.linear_dilate_erode"}
          => a.op \in {DILATE, ERODE}

\* [0, 0, 1, 0, 0] dilated by a window of three.
SpikeDilated ==
    /\ np_asarray(args.vol).data = Spike /\ np_asarray(args.vol).shape = <<5>>
    /\ AskedOp(args) = DILATE
    /\ \/ /\ FlatCall(args)
          /\ np_asbool(np_asarray(args.strel)) = Box(<<3>>)
       \/ /\ LinearCall(args)
          /\ np_asarray(args.line_steps).data = <<0, 1, 0>>
          /\ np_asarray(args.line_lens).data = <<3>>

ListsAccepted ==
    Done => /\ outcome.kind = "return"
            /\ outcome.value = OnArrays(args)
            /\ SpikeDilated => outcome.value.data = <<0, 1, 1, 1, 0>>

\* C20: every flat and linear operation takes a volume and a structuring
\* element given as plain lists that convert to arrays of at most three
\* dimensions and returns what it returns for the equivalent arrays; a 1D
\* volume with a 1D mask of length k, or the step [0, 1, 0] with length k,
\* is filtered along its only axis: [0, 0, 1, 0, 0] dilated by length 3 is
\* [0, 1, 1, 1, 0].
C20_ListsAndLowDimensions ==
    (Filterable(args) /\ env.fault = SUCCESS) => ListsAccepted

\* The same for the functions of the later flat.py alone.
C20_LaterEntryPoints ==
    (Filterable(args) /\ env.fault = SUCCESS /\ ~EarlierEntryPoint(args))
        => ListsAccepted

\* tests/test_flat.py, test_non_numpy_input.
C20_Witness ==
    /\ Succeeded
    /\ args.f = "flat.dilate"
    /\ args.vol = PyList(<<5>>, Spike)
    /\ args.strel = PyList(<<3>>, <<1, 1, 1>>)
    /\ outcome.value = Array(<<5>>, "int", <<0, 1, 1, 1, 0>>)

\* The earlier dilate_erode has ended with AttributeError on a list.
C20_ListRefused ==
    /\ Done
    /\ args.f = "flat.dilate_erode"
    /\ args.vol = PyList(<<5>>, Spike)
    /\ outcome = [kind |-> "raise", exc |-> "AttributeError"]

-----------------------------------------------------------------------------
(* Claim on masks given as numbers *)

\* The boolean mask that is true where the array or list is not 0.
NonzeroMask(strel) ==
    LET S == np_asarray(strel)
    IN Array(S.shape, "bool",
             [i \in 1..Len(S.data) |->
                 IF S.dtype = "bool" THEN S.data[i] ELSE ~(S.data[i] = 0)])

Numeric(strel) == np_asarray(strel).dtype # "bool"

\* The values a flat dilation or erosion can return: those of the volume,
\* and the neutral value where the mask has no true entry in the volume.
ValuesOf(V, op) ==
    {V.data[i] : i \in 1..Len(V.data)}
    \cup {IF op = DILATE THEN TypeMin(V.dtype) ELSE TypeMax(V.dtype)}

\* C21: a flat dilation or erosion by a structuring element given as an
\* array (or list) of numbers returns exactly the result of the boolean
\* mask that is true where the array is nonzero, and every value returned
\* is a value of the volume: the numbers of the array are never added.
C21_MaskConversion ==
    (/\ Succeeded /\ OnVolume /\ FlatDilateErode
     /\ IsArray(args.vol) /\ Numeric(args.strel))
    => LET V == args.vol
           op == AskedOp(args)
           masked == Shaped(FlatRef(op, V, NonzeroMask(args.strel)), V.shape)
       IN /\ outcome.value = masked
          /\ \A i \in 1..Len(V.data) : outcome.value.data[i] \in ValuesOf(V, op)

\* A mask with a negative and a larger entry: the dilation of a volume by
\* [[-1, 0], [0, 3]] is the dilation by [[True, False], [False, True]] and
\* changes the volume.
C21_Witness ==
    /\ Succeeded
    /\ args.f = "flat.dilate"
    /\ args.vol = Textured(<<2, 3>>, "int")
    /\ args.strel = Array(<<2, 2>>, "int", <<-1, 0, 0, 3>>)
    /\ outcome.value
         = Shaped(FlatRef(DILATE, args.vol,
                          Array(<<2, 2>>, "bool", <<TRUE, FALSE, FALSE, TRUE>>)),
                  <<2, 3>>)
    /\ outcome.value # args.vol

\* tests/test_flat.py, test_bool_conversion.
C21_WitnessTest ==
    /\ Succeeded
    /\ args.f = "flat.dilate"
    /\ args.vol = TestPoint(0, 1)
    /\ args.strel = Ones(<<3, 4, 5>>, "int")
    /\ outcome.value = TestExpected(0, 1)

-----------------------------------------------------------------------------
(* Claim on the ball of radius 0 *)

\* The rows of an N x 3 array of steps are pairwise different directions.
DistinctRows(steps) ==
    \A i, j \in 1..steps.shape[1] : Row(steps, i) = Row(steps, j) => i = j

\* C22: for each of the modes INSIDE, BEST and OUTSIDE, flatBallApprox(0)
\* returns exactly 13 step vectors and 13 lengths, every length 0, and a
\* linear dilation or erosion with the returned set returns the volume
\* unchanged.
C22_BallOfRadiusZero ==
    /\ (/\ Done /\ args.f = "strel.flatBallApprox" /\ args.radius = 0
        /\ args.type \in {INSIDE, BEST, OUTSIDE} /\ env.fault = SUCCESS)
       => /\ outcome.kind = "return"
          /\ outcome.value.line_steps.shape = <<13, 3>>
          /\ Len(outcome.value.line_steps.data) = 13 * 3
          /\ outcome.value.line_lens.shape = <<13>>
          /\ outcome.value.line_lens.data = [i \in 1..13 |-> 0]
          /\ outcome.value.line_steps = BallSet.steps
          /\ outcome.value.line_lens = BallSet.lens
    /\ (/\ Succeeded /\ OnVolume /\ LinearDilateErode
        /\ args.line_steps = BallSet.steps /\ args.line_lens = BallSet.lens)
       => outcome.value = args.vol

\* The ball of radius 0 came back in mode OUTSIDE.
C22_Witness ==
    /\ Succeeded
    /\ args.f = "strel.flatBallApprox"
    /\ args.radius = 0 /\ args.type = OUTSIDE
    /\ outcome.value.line_lens.data = [i \in 1..LINE_COUNT |-> 0]
    /\ DistinctRows(outcome.value.line_steps)

\* A linear erosion by the 13 returned segments, block by block, returned
\* a volume that is not constant.
C22_WitnessIdentity ==
    /\ Succeeded
    /\ args.f = "flat.linear_erode"
    /\ args.vol = Textured(<<2, 3>>, "int")
    /\ args.line_steps = BallSet.steps /\ args.line_lens = BallSet.lens
    /\ args.block_size = <<1, 2, 1>>
    /\ outcome.value = args.vol

-----------------------------------------------------------------------------
(* Blocks computed by concurrent workers: inputs and specification *)

Racing == [fault |-> SUCCESS, concurrent |-> TRUE, reported |-> <<>>]

\* A volume of four and a volume of six columns, in blocks that do not
\* divide them: four or six blocks to a pass.
RacingVolumes == {Textured(<<1, 3, 4>>, "int"), Textured(<<2, 2, 3>>, "uint")}
RacingBlocks == {<<1, 2, 2>>, <<2, 1, 2>>}

RacingStrels == {Box(<<1, 3, 3>>), Array(<<2, 2, 2>>, "bool",
                    <<TRUE, FALSE, FALSE, TRUE, FALSE, TRUE, TRUE, FALSE>>)}

RacingLineSets ==
    {[steps |-> Steps(<<<<0, 1, 1>>, <<0, 0, 1>>>>), lens |-> Lens(<<3, 2>>)],
     [steps |-> Steps(<<<<1, 0, -1>>, <<0, 1, 0>>>>), lens |-> Lens(<<2, 3>>)]}

RacingCalls ==
    {StrelFrame(f, v, s, NoOp, b) :
        f \in {"flat.dilate", "flat.erode", "flat.open", "flat.bothat"},
        v \in RacingVolumes, s \in RacingStrels, b \in RacingBlocks}
    \cup {StrelFrame(f, v, Weighted(<<1, 2, 3>>, "int"), NoOp, b) :
            f \in {"gen.dilate", "gen.close"},
            v \in RacingVolumes, b \in RacingBlocks}
    \cup {LinearFrame(f, v, l.steps, l.lens, NoOp, b) :
            f \in {"flat.linear_dilate", "flat.linear_erode", "flat.linear_tophat"},
            v \in RacingVolumes, l \in RacingLineSets, b \in RacingBlocks}

\* Every block size up to MaxBlock on each axis and one that exceeds the
\* volume on every axis, block after block.
GridCalls ==
    {StrelFrame("flat.dilate", v, Box(<<3, 3, 3>>), NoOp, b) :
        v \in {Textured(TileShape, "int"), Textured(<<1, 2, 5>>, "uint")},
        b \in BlockSizes \cup {<<3, 4, 6>>}}

RacingInputs ==
    BaseInputs
    \cup {Input(c, Racing) : c \in RacingCalls}
    \cup {Input(c, Quiet) : c \in GridCalls}

InitRacing == Start(RacingInputs)

SpecRacing == InitRacing /\ [][Next]_vars

-----------------------------------------------------------------------------
(* Claims on concurrent blocks *)

\* The blocks of one pass one after the other in scan order, each loading
\* its tile and writing its voxels.
RECURSIVE InScanOrder(_, _, _, _, _, _, _)
InScanOrder(stage, dtype, src, dst, size, block, pending) ==
    IF pending = {} THEN dst
    ELSE LET b == FirstBlock(pending, size, block)
             tile == LoadTile(PassInput(src, dst), size, block, b, StageHalo(stage))
         IN InScanOrder(stage, dtype, src,
                        ProcessBlock(stage, dtype, tile, dst, size, block, b),
                        size, block, pending \ {b})

\* The output of the pass the engine is in, had its blocks run in scan order.
SequentialPass ==
    InScanOrder(Head(eng.stages), eng.dtype, eng.src,
                [i \in 1..Len(eng.src) |-> Uninit], eng.size, eng.block,
                AllBlocks(eng.size, eng.block))

InPass == Volumetric /\ eng.stages # <<>> /\ ~Undefined(eng)

\* The cells of block b's input region (its own voxels and the halo).
InputRegion(b) == BlockIn(b, eng.size, eng.block, StageHalo(Head(eng.stages)))

\* The blocks of the pass that have written their voxels.
Committed ==
    AllBlocks(eng.size, eng.block) \ (eng.pending \cup {w.b : w \in eng.running})

\* C23: when the blocks of a pass are computed by concurrent workers in any
\* interleaving, the tile of every block holds the input of the pass on the
\* block's region and halo, never a voxel another block wrote in the same
\* pass, and whatever the interleaving the pass ends with the volume the
\* sequential block order gives.
C23_TileIndependence ==
    InPass =>
        /\ \A w \in eng.running :
              \A i \in 1..Len(eng.src) :
                 w.tile[i] = IF InRegion(PosOf(i, eng.size), InputRegion(w.b))
                             THEN eng.src[i] ELSE Uninit
        /\ (eng.pending = {} /\ eng.running = {}) => eng.dst = SequentialPass

\* A worker holds the tile of a block whose halo reaches into voxels that
\* another block has already written in this pass with other values, while
\* a third block is still to be dispatched.
C23_Witness ==
    /\ InPass /\ env.concurrent
    /\ eng.pending # {}
    /\ \E w \in eng.running :
          \E b \in Committed :
             \E i \in 1..Len(eng.dst) :
                /\ InRegion(PosOf(i, eng.size), BlockOut(b, eng.size, eng.block))
                /\ InRegion(PosOf(i, eng.size), InputRegion(w.b))
                /\ eng.dst[i] # eng.src[i]
                /\ w.tile[i] = eng.src[i]

\* A pass whose blocks were committed out of scan order is complete.
C23_WitnessComplete ==
    /\ InPass /\ env.concurrent
    /\ eng.pending = {} /\ eng.running = {}
    /\ Cardinality(AllBlocks(eng.size, eng.block)) = 6
    /\ eng.dst = SequentialPass
    /\ eng.dst # eng.src

-----------------------------------------------------------------------------
(* Claim on the grid of output blocks *)

\* The block is not empty and lies in the volume.
WithinVolume(out) ==
    \A k \in 1..3 : 0 <= out.lo[k] /\ out.lo[k] <= out.hi[k]
                     /\ out.hi[k] <= eng.size[k] - 1

\* A written cell holds a value of the element type.  That tells written
\* from unwritten cells when the input of the pass holds such values only
\* (it does not when it is the unwritten result of a call that failed).
Written(i) == eng.dst[i] # Uninit
Initialised == \A i \in 1..Len(eng.src) : eng.src[i] # Uninit

Divides(block, size) == \A k \in 1..3 : size[k] % block[k] = 0

\* C24: for every volume size and block size, also block sizes that do not
\* divide the volume or exceed it, every voxel lies in exactly one output
\* block (the blocks are pairwise disjoint and cover the volume); during a
\* pass the voxels of the blocks still to be written are unwritten and those
\* of the blocks done are written, so that at the end of the pass every
\* voxel has been written exactly once.
C24_BlocksPartitionVolume ==
    InPass =>
        LET blocks == AllBlocks(eng.size, eng.block)
            out == [b \in blocks |-> BlockOut(b, eng.size, eng.block)]
            owners == [i \in 1..Len(eng.dst) |->
                          {b \in blocks : InRegion(PosOf(i, eng.size), out[b])}]
            todo == eng.pending \cup {w.b : w \in eng.running}
        IN /\ \A b \in blocks : WithinVolume(out[b])
           /\ \A i \in 1..Len(eng.dst) : Cardinality(owners[i]) = 1
           /\ Initialised =>
                 /\ \A i \in 1..Len(eng.dst) :
                       \A b \in owners[i] : Written(i) <=> (b \notin todo)
                 /\ todo = {} => \A i \in 1..Len(eng.dst) : Written(i)

\* A pass over a 2 x 3 x 3 volume in blocks of 2 x 2 x 2, which do not
\* divide it, is complete.
C24_Witness ==
    /\ InPass
    /\ eng.size = <<3, 3, 2>> /\ eng.block = <<2, 2, 2>>
    /\ ~Divides(eng.block, eng.size)
    /\ Cardinality(AllBlocks(eng.size, eng.block)) = 4
    /\ eng.pending = {} /\ eng.running = {}
    /\ Initialised
    /\ \A i \in 1..Len(eng.dst) : Written(i)

\* A pass in one block larger than the volume is complete, and a pass in
\* blocks of one voxel is half-way.
C24_WitnessExceeds ==
    /\ InPass
    /\ \A k \in 1..3 : eng.block[k] > eng.size[k]
    /\ AllBlocks(eng.size, eng.block) = {<<0, 0, 0>>}
    /\ eng.pending = {}
    /\ Initialised
    /\ \A i \in 1..Len(eng.dst) : Written(i)

C24_WitnessHalfWay ==
    /\ InPass
    /\ eng.block = <<1, 1, 1>>
    /\ Cardinality(eng.pending) = 9 /\ Cardinality(Committed) = 9

-----------------------------------------------------------------------------
(* Claim on the order of passes and stages *)

\* The functions that apply one or two primitives to a volume.
Composable(a) ==
    a.f \in {"flat.dilate", "flat.erode", "flat.open", "flat.close", "flat.tophat",
             "flat.bothat", "gen.dilate", "gen.erode", "gen.open", "gen.close",
             "gen.tophat", "gen.bothat"} \cup LinearWrappers

\* The whole-volume primitives of the call, one after the other: every
\* segment of a line set in the order given, and erosion before dilation
\* (OPEN, TOPHAT) or dilation before erosion (CLOSE, BOTHAT).
Composition(a) ==
    LET V == a.vol
        family == CASE a.f \in LinearWrappers -> "flat.linear_open"
                    [] a.f \in {"gen.dilate", "gen.erode", "gen.open", "gen.close",
                                "gen.tophat", "gen.bothat"} -> "gen.open"
                    [] OTHER -> "flat.morph"
        b == [a EXCEPT !.f = family]
        op == CASE a.f \in {"flat.dilate", "gen.dilate", "flat.linear_dilate"} -> DILATE
                [] a.f \in {"flat.erode", "gen.erode", "flat.linear_erode"} -> ERODE
                [] OTHER -> CallOp(a)
        opened == RefOpen(b).data
        closed == RefClose(b).data
    IN CASE op \in {DILATE, ERODE} -> RefDilateErode(op, b, V).data
         [] op = OPEN -> opened
         [] op = CLOSE -> closed
         [] op = TOPHAT ->
              [i \in 1..Len(V.data) |-> Wrap(V.dtype, V.data[i] - opened[i])]
         [] op = BOTHAT ->
              [i \in 1..Len(V.data) |-> Wrap(V.dtype, closed[i] - V.data[i])]

Complete(buf) == \A i \in 1..Len(buf) : buf[i] # Uninit

\* The step starts the next pass of an engine call; the step starts an
\* engine call on a volume; the step ends the caller's call.
PassStarts ==
    /\ InPass /\ eng'.busy
    /\ eng'.stages = Tail(eng.stages)
EngineCallStarts == ~eng.busy /\ eng'.busy /\ eng'.fn \in {"flat", "gen", "line"}
CallEnds == ~Done /\ Done'

OrderedStep ==
    /\ PassStarts =>
          /\ eng.pending = {} /\ eng.running = {}
          /\ eng'.src = eng.dst
          /\ eng'.running = {}
          /\ Complete(eng.src) => Complete(eng'.src)
    /\ (EngineCallStarts /\ env.fault = SUCCESS) =>
          /\ Complete(eng'.orig)
          /\ eng'.src = eng'.orig
    /\ (CallEnds /\ Succeeded' /\ Composable(args)) =>
          outcome'.value.data = Composition(args)

\* C25: no block of the next pass of a line set or of a composed operation
\* is started before every block of the pass before it has written its
\* output, the second primitive of open, close, tophat and bothat starts on
\* the complete result of the first, and the value returned is the
\* composition of the whole-volume primitives in the order given.
C25_PassAndStageOrder == [][OrderedStep]_vars

\* The second segment of a line set is under way with concurrent blocks, on
\* the complete output of the first segment.
C25_Witness ==
    /\ InPass /\ env.concurrent
    /\ eng.fn = "line"
    /\ Len(args.line_lens.data) = 2 /\ Len(eng.stages) = 1
    /\ eng.running # {} /\ eng.pending # {}
    /\ Complete(eng.src)
    /\ eng.src # eng.orig

\* The dilation of linear_tophat's opening is under way on the result of
\* its erosion; a flat closing by concurrent blocks has returned.
C25_WitnessSecondPrimitive ==
    /\ InPass /\ env.concurrent
    /\ args.f = "flat.linear_tophat"
    /\ top.f = "flat.linear_morph" /\ top.op = DILATE
    /\ eng.orig = rv.data
    /\ eng.orig # args.vol.data

C25_WitnessReturned ==
    /\ Succeeded /\ env.concurrent
    /\ args.f = "gen.close"
    /\ args.block_size = <<2, 1, 2>>
    /\ outcome.value.data = Composition(args)
    /\ outcome.value.data # args.vol.data

-----------------------------------------------------------------------------
(* Claim on the order of the segments *)

Orders(n) ==
    {f \in [1..n -> 1..n] : \A i, j \in 1..n : f[i] = f[j] => i = j}

\* The line set with segment f[k] in place k.
Permuted(steps, lens, f) ==
    [steps |-> Steps([k \in 1..Len(lens.data) |-> Row(steps, f[k])]),
     lens |-> Lens([k \in 1..Len(lens.data) |-> lens.data[f[k]]])]

\* What linear_morph returns for the segments of the call in the order f.
InOrder(a, f) ==
    LET l == Permuted(a.line_steps, a.line_lens, f)
    IN InOnePass(OnePassCall([a EXCEPT !.line_steps = l.steps, !.line_lens = l.lens]))

\* Every step vector runs along one axis; and is one voxel long.
AxisAligned(steps) ==
    \A k \in 1..steps.shape[1] :
        Cardinality({c \in 1..3 : Row(steps, k)[c] # 0}) <= 1
UnitSteps(steps) ==
    \A k \in 1..steps.shape[1] : \A c \in 1..3 : Row(steps, k)[c] \in {-1, 0, 1}

SameInEveryOrder ==
    \A f \in Orders(Len(args.line_lens.data)) :
        outcome.value.data = InOrder(args, f)

LinearMorphReturned ==
    /\ Succeeded
    /\ args.f = "flat.linear_morph"
    /\ args.op \in {DILATE, ERODE}

\* C26 as stated: linear dilation and linear erosion return the same volume
\* for every permutation of the segments of the line set, for axis-aligned
\* and diagonal steps alike, also next to the border of the volume.
C26_SegmentOrderIrrelevant ==
    LinearMorphReturned => SameInEveryOrder

\* C26: linear dilation and linear erosion return the same volume for every
\* permutation of the segments when every step vector is one voxel along
\* one axis, in either direction, also next to the border of the volume.
C26_AxisSegmentOrderIrrelevant ==
    (LinearMorphReturned /\ AxisAligned(args.line_steps) /\ UnitSteps(args.line_steps))
        => SameInEveryOrder

\* Three segments along two axes, two of them in opposite directions, on a
\* volume that the dilation changes.
C26_Witness ==
    /\ LinearMorphReturned
    /\ args.op = DILATE
    /\ args.line_steps = Steps(<<<<0, 0, -1>>, <<0, 1, 0>>, <<0, 0, 1>>>>)
    /\ args.line_lens = Lens(<<2, 2, 2>>)
    /\ args.vol = Textured(LineShape, "int")
    /\ outcome.value.data # args.vol.data
    /\ SameInEveryOrder

\* The segments of the box of the test suite in a set of three.
C26_WitnessBox ==
    /\ LinearMorphReturned
    /\ args.op = ERODE
    /\ args.line_steps = AxisSteps
    /\ args.line_lens = Lens(<<2, 3, 2>>)
    /\ args.vol = Textured(LineShape, "int")
    /\ outcome.value.data # args.vol.data
    /\ SameInEveryOrder

\* Two diagonal segments whose order shows next to the border; two segments
\* along one axis, of step 2 and step -1, whose order shows.
C26_OrderShows ==
    /\ LinearMorphReturned
    /\ ~AxisAligned(args.line_steps) /\ UnitSteps(args.line_steps)
    /\ Len(args.line_lens.data) = 2
    /\ ~SameInEveryOrder

C26_OrderShowsOnOneAxis ==
    /\ LinearMorphReturned
    /\ AxisAligned(args.line_steps) /\ ~UnitSteps(args.line_steps)
    /\ ~SameInEveryOrder

-----------------------------------------------------------------------------
(* Claim on the line filter *)

\* The line of the volume through voxel p along step: its n voxels as a
\* function on 0..n-1 and the index j of p on it.
LineThrough(src, size, step, p) ==
    LET reach == size[1] + size[2] + size[3]
        whole == WholeVolume(size)
        kb == Cardinality({k \in 1..reach : InRegion(Shift(p, step, -k), whole)})
        kf == Cardinality({k \in 1..reach : InRegion(Shift(p, step, k), whole)})
    IN [n |-> kb + kf + 1, j |-> kb,
        f |-> [t \in 0..kb + kf |-> At(src, Shift(p, step, t - kb), size)]]

\* The extremum over the L cells around index j, L \div 2 of them before
\* it, that lie on the line.
NaiveWindow(op, f, n, L, j) ==
    Reduce(op, {f[t] : t \in {t \in j - L \div 2..j + (L - 1) - L \div 2 :
                                 0 <= t /\ t < n}})

\* A pass of a segment of one voxel or more over values of the element
\* type is complete.
LinePassDone ==
    /\ InPass /\ eng.fn = "line"
    /\ Initialised
    /\ eng.pending = {} /\ eng.running = {}
    /\ Head(eng.stages).line.len >= 1
    /\ Head(eng.stages).line.step # <<0, 0, 0>>

\* C27: for every line of N voxels, N smaller than, equal to, a multiple of
\* or no multiple of the segment length L >= 1, the combination of the
\* forward and backward running extrema of the windows of L cells is at
\* every position the naive maximum (minimum) over the L cells around the
\* position that lie on the line, and that is what the pass writes.
C27_LineFilterIsNaiveWindow ==
    LinePassDone =>
        LET stage == Head(eng.stages)
        IN \A i \in 1..Len(eng.src) :
              LET l == LineThrough(eng.src, eng.size, stage.line.step,
                                   PosOf(i, eng.size))
                  naive == NaiveWindow(stage.op, l.f, l.n, stage.line.len, l.j)
              IN /\ vHGW(stage.op, Identity(stage.op, eng.dtype), l.f, l.n,
                          stage.line.len, l.j) = naive
                 /\ eng.dst[i] = naive

\* A line of seven voxels filtered with a segment of four, which does not
\* divide it; a line of two voxels filtered with a segment of three.
C27_Witness ==
    /\ LinePassDone
    /\ eng.size = <<7, 1, 1>>
    /\ Head(eng.stages).line.len = 4
    /\ Head(eng.stages).op = ERODE
    /\ eng.dst # eng.src

C27_WitnessShortLine ==
    /\ LinePassDone
    /\ eng.size = <<2, 1, 1>>
    /\ Head(eng.stages).line.len = 3
    /\ Head(eng.stages).op = DILATE
    /\ eng.dst # eng.src

-----------------------------------------------------------------------------
(* Claim on the axes of the step vectors *)

\* linear_morph, or one of its two direct wrappers, returned.
LinearPassesReturned ==
    /\ Succeeded
    /\ \/ args.f = "flat.linear_morph" /\ args.op \in {DILATE, ERODE}
       \/ args.f \in {"flat.linear_dilate", "flat.linear_erode"}
    /\ IsArray(args.vol) /\ IsArray(args.line_steps) /\ IsArray(args.line_lens)
    /\ Len(args.vol.shape) = 3 /\ Len(args.line_steps.shape) = 2
    /\ ~HasNegative(args.line_lens)

\* The voxels of a 3D array that differ from those of another.
Changed(a, b) == {CoordOf(n, a.shape) : n \in {n \in 1..Len(a.data) : a.data[n] # b.data[n]}}

\* The axes along which the voxels of a set differ from one another.
AxesSpanned(ps) == {k \in 1..3 : \E p, q \in ps : p[k] # q[k]}

\* The earlier linear_dilate_erode returned.
EarlierLinearReturned ==
    /\ Succeeded
    /\ args.f = "flat.linear_dilate_erode"
    /\ IsArray(args.vol) /\ IsArray(args.line_steps) /\ IsArray(args.line_lens)
    /\ Len(args.vol.shape) = 3 /\ Len(args.line_steps.shape) = 2
    /\ args.line_steps.shape[2] = 3
    /\ ~HasNegative(args.line_lens)

\* Component i of a step vector moved along axis i of the volume as the
\* caller indexes it: the result is that of the passes along the caller's
\* axes, a single segment along axis i changes voxels along axis i only, and
\* the steps (1,0,0), (0,1,0), (0,0,1) with the lengths (3,4,5) extend a
\* point by 3 along axis 0, 4 along axis 1 and 5 along axis 2.
StepsAlongCallerAxes ==
    LET V == args.vol
        op == AskedOp(args)
    IN /\ outcome.value
            = Shaped(LinearRef(op, V, args.line_steps, args.line_lens), V.shape)
       /\ \A k \in 1..3 :
             (/\ args.line_steps.shape[1] = 1
              /\ \A c \in 1..3 : (Row(args.line_steps, 1)[c] # 0) <=> (c = k))
             => AxesSpanned(Changed(outcome.value, V)) \subseteq {k}
       /\ (/\ args.line_steps = AxisSteps /\ args.line_lens = Lens(<<3, 4, 5>>)
           /\ \E b \in {0, 1} : V = TestPoint(b, 1 - b))
          => Changed(outcome.value, V) \cup {<<3, 3, 3>>}
               = {<<i, j, k>> : i \in 2..4, j \in 2..5, k \in 1..5}

\* C28: every linear entry point takes component i of a step vector as
\* movement along axis i of the volume as the caller indexes it, the
\* reversal of the step components matching that of the volume dimensions:
\* the steps (1,0,0), (0,1,0), (0,0,1) with the lengths (3,4,5) extend a
\* point by 3 along axis 0, 4 along axis 1 and 5 along axis 2.
C28_StepAxisOrder ==
    (LinearPassesReturned \/ EarlierLinearReturned) => StepsAlongCallerAxes

\* linear_morph and its wrappers, which reverse the step components
\* (flat.py, line 373), do keep the caller's axes.
C28_LinearMorphStepAxisOrder ==
    LinearPassesReturned => StepsAlongCallerAxes

\* tests/test_flat_linear.py, test_erode through linear_morph: the zero at
\* (3,3,3) is extended to [2:5, 2:6, 1:6].
C28_Witness ==
    /\ LinearPassesReturned
    /\ args.f = "flat.linear_morph" /\ args.op = ERODE
    /\ args.vol = TestPoint(1, 0)
    /\ args.line_steps = AxisSteps /\ args.line_lens = Lens(<<3, 4, 5>>)
    /\ outcome.value = TestExpected(1, 0)

\* A single segment along axis 0 has changed voxels, along axis 0 only.
C28_WitnessSingleAxis ==
    /\ LinearPassesReturned
    /\ args.vol.shape = LineShape
    /\ args.line_steps = Steps(<<<<1, 0, 0>>>>)
    /\ AxesSpanned(Changed(outcome.value, args.vol) \cup Changed(args.vol, Constant(LineShape, "int", 0)))
          = {1}

\* The earlier linear_dilate_erode hands the steps to the engine as they
\* are: the same steps move along the axes in reverse order.
C28_EarlierEntryPointReversed ==
    /\ Succeeded
    /\ args.f = "flat.linear_dilate_erode"
    /\ args.line_steps = AxisSteps
    /\ outcome.value
         # Shaped(LinearRef(args.op, args.vol, args.line_steps, args.line_lens),
                  args.vol.shape)
    /\ outcome.value
         = Shaped(LinearRef(args.op, args.vol, np_flip_axis1(args.line_steps),
                            args.line_lens),
                  args.vol.shape)

-----------------------------------------------------------------------------
(* Residues of opening and closing: inputs and specification *)

\* The all-zero kernel of a shape: a general structuring element that is
\* flat.
Zeros(shape, dtype) == Array(shape, dtype, [i \in 1..Prod(shape) |-> 0])

\* Signed and unsigned volumes with bright and dark voxels at the border,
\* and a row with a plateau of two voxels.
Plateau(dtype) == Array(<<1, 1, 4>>, dtype, <<0, 2, 2, 0>>)
HatVolumes ==
    {Textured(LineShape, t) : t \in {"int", "uint"}}
    \cup {Plateau(t) : t \in {"int", "uint"}}
    \cup {[v EXCEPT !.dtype = "uint"] : v \in Striped(LineShape)}

\* Kernels of zero weights with odd and with even extents.
HatKernels == {Zeros(sh, "int") : sh \in {<<1, 1, 3>>, <<1, 3, 3>>, <<1, 1, 2>>, <<2, 2, 2>>}}

\* Line sets whose lengths are all odd, and line sets with an even length.
OddLineSets ==
    {[steps |-> Steps(<<<<0, 0, 1>>>>), lens |-> Lens(<<3>>)],
     [steps |-> AxisSteps, lens |-> Lens(<<1, 3, 3>>)],
     [steps |-> Steps(<<<<0, 1, 1>>>>), lens |-> Lens(<<3>>)],
     [steps |-> Steps(<<<<0, 1, 1>>, <<0, 1, -1>>>>), lens |-> Lens(<<3, 3>>)],
     [steps |-> Steps(<<<<1, 1, 0>>, <<0, 0, 1>>>>), lens |-> Lens(<<3, 3>>)],
     [steps |-> Steps(<<<<0, 0, 2>>, <<0, 0, -1>>>>), lens |-> Lens(<<3, 3>>)]}
EvenLineSets ==
    {[steps |-> Steps(<<<<0, 0, 1>>>>), lens |-> Lens(<<2>>)],
     [steps |-> AxisSteps, lens |-> Lens(<<2, 3, 2>>)],
     [steps |-> Steps(<<<<0, 0, 1>>, <<0, 1, 0>>>>), lens |-> Lens(<<4, 0>>)]}

HatCalls ==
    {StrelFrame("flat." \o Suffix(op), v, s, NoOp, DefaultBlock) :
        op \in OPEN..BOTHAT, v \in HatVolumes, s \in MirrorStrels \cup SkewStrels}
    \cup {StrelFrame("flat.morph", v, s, op, <<1, 2, 2>>) :
        op \in OPEN..BOTHAT, v \in HatVolumes, s \in {Cross, Box(<<1, 1, 2>>)}}
    \cup {StrelFrame("gen." \o Suffix(op), v, s, NoOp, DefaultBlock) :
        op \in OPEN..BOTHAT, v \in HatVolumes, s \in HatKernels}
    \cup {LinearFrame("flat.linear_" \o Suffix(op), v, l.steps, l.lens, NoOp, b) :
        op \in OPEN..BOTHAT, v \in HatVolumes, l \in OddLineSets \cup EvenLineSets,
        b \in {DefaultLinearBlock, <<1, 2, 2>>}}

HatInputs == BaseInputs \cup {Input(c, Quiet) : c \in HatCalls}

InitHat == Start(HatInputs)

SpecHat == InitHat /\ [][Next]_vars

-----------------------------------------------------------------------------
(* Claim on the sign of the residues *)

\* The structuring element of the call is flat: a boolean mask, a line set,
\* or a kernel whose weights are all zero.
GenComposed(a) == a.f \in {"gen.open", "gen.close", "gen.tophat", "gen.bothat"}
FlatElement(a) ==
    GenComposed(a) =>
        LET strel == np_astype(np_asarray(a.strel), np_asarray(a.vol).dtype)
        IN \A j \in 1..Len(strel.data) : strel.data[j] = 0

\* A call of one of the four composed operations returned.
ComposedReturned(op) ==
    /\ Succeeded
    /\ CallOp(args) = op
    /\ IsArray(args.vol)
    /\ FlatElement(args)

\* The opening is nowhere above the volume and the closing nowhere below;
\* the top-hat and the bottom-hat are the differences V - open(V, S) and
\* close(V, S) - V as integers, which are nowhere negative.
ResiduesNonNegative ==
    LET V == args.vol.data
        out == outcome.value.data
    IN /\ ComposedReturned(OPEN) => \A i \in 1..Len(V) : out[i] <= V[i]
       /\ ComposedReturned(CLOSE) => \A i \in 1..Len(V) : out[i] >= V[i]
       /\ ComposedReturned(TOPHAT) =>
             LET opened == RefOpen(args).data
             IN \A i \in 1..Len(V) : out[i] = V[i] - opened[i] /\ out[i] >= 0
       /\ ComposedReturned(BOTHAT) =>
             LET closed == RefClose(args).data
             IN \A i \in 1..Len(V) : out[i] = closed[i] - V[i] /\ out[i] >= 0

\* C29, as stated: for every volume V and every flat structuring element or
\* flat line set S, even-sized and off-centre ones included, open(V, S) <= V
\* and close(V, S) >= V at every voxel, so tophat(V, S) and bothat(V, S) are
\* >= 0 everywhere and the subtraction never wraps around for unsigned
\* element types.
C29_HatsNeverNegative == ResiduesNonNegative

\* The structuring element of the call reads the same voxels on either side
\* of the anchor: a mask of odd extents with equal entries at o and -o, a
\* zero kernel of odd extents, or a line set of odd lengths that is a single
\* segment or has axis-aligned unit steps only.
Symmetric(a) ==
    IF "line_lens" \in DOMAIN a
    THEN /\ IsArray(a.line_steps) /\ IsArray(a.line_lens)
         /\ \A k \in 1..Len(a.line_lens.data) : a.line_lens.data[k] % 2 = 1
         /\ \/ Len(a.line_lens.data) = 1
            \/ AxisAligned(a.line_steps) /\ UnitSteps(a.line_steps)
    ELSE IF GenComposed(a)
    THEN OddExtents(np_asarray(a.strel))
    ELSE Mirrored(a.strel)

\* C29, as it holds: for every volume V and every flat structuring element
\* or flat line set S that is symmetric about its anchor, open(V, S) <= V
\* and close(V, S) >= V at every voxel, so tophat(V, S) and bothat(V, S) are
\* >= 0 everywhere and the subtraction does not wrap around for unsigned
\* element types.
C29_HatsNeverNegativeWhenSymmetric ==
    (\E op \in OPEN..BOTHAT : ComposedReturned(op) /\ Symmetric(args))
        => ResiduesNonNegative

\* A linear bottom-hat of an unsigned volume by a box of odd lengths that
\* is neither zero nor the volume.
C29_Witness ==
    /\ ComposedReturned(BOTHAT) /\ Symmetric(args)
    /\ args.f = "flat.linear_bothat"
    /\ args.vol.dtype = "uint"
    /\ args.line_steps = AxisSteps
    /\ outcome.value.data # args.vol.data
    /\ \E i \in 1..Len(args.vol.data) : outcome.value.data[i] > 0
    /\ \E i \in 1..Len(args.vol.data) :
          outcome.value.data[i] = 0 /\ args.vol.data[i] > 0

\* A top-hat by the plus-shaped mask, a top-hat by a zero kernel of odd
\* extents, and an opening by a single diagonal segment, each of which
\* removed something.
C29_WitnessMask ==
    /\ ComposedReturned(TOPHAT) /\ Symmetric(args)
    /\ args.f = "flat.tophat" /\ args.strel = Cross
    /\ args.vol.dtype = "uint"
    /\ \E i \in 1..Len(args.vol.data) : outcome.value.data[i] > 0

C29_WitnessKernel ==
    /\ ComposedReturned(TOPHAT) /\ Symmetric(args)
    /\ args.f = "gen.tophat"
    /\ args.vol.dtype = "uint"
    /\ \E i \in 1..Len(args.vol.data) : outcome.value.data[i] > 0

C29_WitnessDiagonal ==
    /\ ComposedReturned(OPEN) /\ Symmetric(args)
    /\ args.f = "flat.linear_open"
    /\ args.line_steps = Steps(<<<<0, 1, 1>>>>)
    /\ \E i \in 1..Len(args.vol.data) : outcome.value.data[i] < args.vol.data[i]

\* The opening by a segment of length 2 moves the plateau of the row
\* (0, 2, 2, 0) by one voxel: it exceeds the row at the last voxel, and the
\* top-hat of the unsigned row wraps around there.
C29_OpeningExceeds ==
    /\ ComposedReturned(OPEN)
    /\ args.f = "flat.linear_open"
    /\ args.vol = Plateau("uint")
    /\ args.line_lens = Lens(<<2>>)
    /\ \E i \in 1..4 : outcome.value.data[i] > args.vol.data[i]

C29_TopHatWraps ==
    /\ ComposedReturned(TOPHAT)
    /\ args.f = "flat.linear_tophat"
    /\ args.vol = Plateau("uint")
    /\ args.line_lens = Lens(<<2>>)
    /\ \E i \in 1..4 : outcome.value.data[i] = TypeMax("uint") - 1

\* Two diagonal segments of odd length: the closing falls below the volume
\* at the border, where the two passes do not commute.
C29_ClosingFallsBelow ==
    /\ ComposedReturned(CLOSE)
    /\ args.f = "flat.linear_close"
    /\ args.line_steps = Steps(<<<<0, 1, 1>>, <<0, 1, -1>>>>)
    /\ args.line_lens = Lens(<<3, 3>>)
    /\ \E i \in 1..Len(args.vol.data) : outcome.value.data[i] < args.vol.data[i]

====
